---- MODULE Spec2Model ----
(***************************************************************************)
(* Alarm-derivation pipeline of the build_alarm_config lambda              *)
(* (src/lambda/functions/build_alarm_config/app.py).                       *)
(*                                                                         *)
(* Python values are modelled as follows.                                  *)
(*   str    a sequence of one-character strings, "ab" is <<"a","b">>       *)
(*   None   NoneVal, a sequence no str can equal                           *)
(*   dict   a function whose DOMAIN is the set of keys present             *)
(*   list   a sequence                                                     *)
(*   a catalog threshold value: [t |-> "int"|"str", v |-> its str()]       *)
(***************************************************************************)
EXTENDS Integers, Sequences, FiniteSets, TLC

VARIABLES
    event,          \* the lambda's event dict
    catalog,        \* AlarmConfigTable: <<service, metric>> -> record
    table_writes,   \* number of writer invocations begun since the run began
    writers,        \* the writer invocations in flight, in the order they began
    pc,             \* position of lambda_handler
    os_type,        \* local os_type of lambda_handler
    disks,          \* local disks of lambda_handler
    alarm_config,   \* outcome of get_alarms / event["alarm_config"]
    lookups,        \* catalog keys load_table_item was called with, in order
    env,            \* what STS, EC2 and SSM answer during this run
    sent,           \* number of ssm.send_command calls made
    invocation,     \* the get_command_invocation response discover_disks read
    call,           \* arguments and locals of the function a specification calls
    ret,            \* what that call returned
    cloudwatch,     \* the metric alarms CloudWatch holds, in the order they were first put
    executions,     \* the workflow's executions: status, input, lambda position and locals of each
    now,            \* time.time(), in seconds since wait_for_command was entered
    deadline,       \* local deadline of wait_for_command
    polls,          \* number of get_command_invocation calls wait_for_command made
    outputs         \* what wait_for_command returned: install_ouput, configure_output

vars == <<event, catalog, table_writes, writers, pc, os_type, disks, alarm_config, lookups,
          env, sent, invocation, call, ret, cloudwatch, executions, now, deadline, polls,
          outputs>>

\* the table, the variables of the workflow around a run, and those of a wait
tableVars == <<catalog, table_writes, writers>>
workflowVars == <<cloudwatch, executions>>
waitVars == <<now, deadline, polls, outputs>>

\* no workflow and no wait is part of what is modelled
NoWorkflow == cloudwatch = <<>> /\ executions = <<>>
NoWait == now = 0 /\ deadline = 0 /\ polls = 0 /\ outputs = <<>>

----------------------------------------------------------------------------
\* Bounds of the model

MaxTags == 2
MaxTiers == 2
MaxDims == 3
MaxLines == 2

----------------------------------------------------------------------------
\* Strings

NoneVal == <<"<None>">>

\* the characters of the model are those of Latin-1 (code points 0 to 255);
\* these are the ones str.lower() changes, and what it makes of them
UpperChars ==
    <<"A","B","C","D","E","F","G","H","I","J","K","L","M","N","O","P","Q","R","S","T","U","V","W","X","Y","Z">>
    \o <<"À","Á","Â","Ã","Ä","Å","Æ","Ç","È","É","Ê","Ë","Ì","Í","Î","Ï","Ð","Ñ","Ò","Ó","Ô","Õ","Ö","Ø","Ù","Ú","Û","Ü","Ý","Þ">>
LowerChars ==
    <<"a","b","c","d","e","f","g","h","i","j","k","l","m","n","o","p","q","r","s","t","u","v","w","x","y","z">>
    \o <<"à","á","â","ã","ä","å","æ","ç","è","é","ê","ë","ì","í","î","ï","ð","ñ","ò","ó","ô","õ","ö","ø","ù","ú","û","ü","ý","þ">>

\* str.lower() on one character
lower_char(c) ==
    IF \E i \in DOMAIN UpperChars : UpperChars[i] = c
    THEN LowerChars[CHOOSE i \in DOMAIN UpperChars : UpperChars[i] = c]
    ELSE c

\* str.lower()
lower(s) == [i \in DOMAIN s |-> lower_char(s[i])]

\* str.split(sep) for a one-character separator: always at least one segment
RECURSIVE split_from(_, _, _, _)
split_from(s, sep, i, segs) ==
    IF i > Len(s) THEN segs
    ELSE split_from(s, sep, i + 1,
                    IF s[i] = sep THEN Append(segs, <<>>)
                    ELSE [segs EXCEPT ![Len(segs)] = Append(@, s[i])])

split(s, sep) == split_from(s, sep, 1, << <<>> >>)

\* sep.join(segments)
RECURSIVE join(_, _)
join(segs, sep) ==
    IF Len(segs) = 0 THEN <<>>
    ELSE IF Len(segs) = 1 THEN segs[1]
    ELSE segs[1] \o <<sep>> \o join(Tail(segs), sep)

\* how an f-string renders a value
format(v) == IF v = NoneVal THEN <<"N","o","n","e">> ELSE v

\* Python truthiness of a str-or-None
truthy(v) == v # NoneVal /\ v # <<>>

S_true == <<"t","r","u","e">>
S_True == <<"T","r","u","e">>
S_TRUE == <<"T","R","U","E">>
S_80 == <<"8","0">>
S_95 == <<"9","5">>
S_90 == <<"9","0">>
P1 == <<"P","1">>
P2 == <<"P","2">>
P3 == <<"P","3">>
P4 == <<"P","4">>
Critical == <<"C","r","i","t","i","c","a","l">>
High == <<"H","i","g","h">>
Low == <<"L","o","w">>
InstanceId == <<"I","n","s","t","a","n","c","e","I","d">>
InstanceType == <<"I","n","s","t","a","n","c","e","T","y","p","e">>
ImageId == <<"I","m","a","g","e","I","d">>
AutoScalingGroup == <<"A","u","t","o","S","c","a","l","i","n","g","G","r","o","u","p">>
S_path == <<"p","a","t","h">>
S_LogicalDisk == <<"L","o","g","i","c","a","l","D","i","s","k">>
S_device == <<"d","e","v","i","c","e">>
S_fstype == <<"f","s","t","y","p","e">>
S_EC2 == <<"E","C","2">>
S_cpu == <<"C","P","U","U","t","i","l","i","z","a","t","i","o","n">>
S_status == <<"S","t","a","t","u","s","C","h","e","c","k","F","a","i","l","e","d","_","I","n","s","t","a","n","c","e">>
S_mem == <<"m","e","m","_","u","s","e","d","_","p","e","r","c","e","n","t">>
S_ec2 == <<"e","c","2">>
S_instance == <<"i","n","s","t","a","n","c","e">>
S_s3 == <<"s","3">>
S_bucket == <<"b","u","c","k","e","t">>

\* Environment of the lambda
EC2LINUXDISK_TAG == <<"d","i","s","k","_","u","s","e","d","_","p","e","r","c","e","n","t">>
EC2WINDOWSDISK_TAG == <<"L","o","g","i","c","a","l","D","i","s","k"," ","%"," ","F","r","e","e"," ","S","p","a","c","e">>

PyInt(digits) == [t |-> "int", v |-> digits]
PyStr(s) == [t |-> "str", v |-> s]
\* str(x)
str(x) == x.v

\* dict.get(key, default)
get(d, key, default) == IF key \in DOMAIN d THEN d[key] ELSE default

----------------------------------------------------------------------------
\* Catalog access

\* None where a catalog record is expected
NoneItem == [none |-> TRUE]

\* AlarmConfigTable.get wrapped: the record, or None when there is none
\* a key of the catalog whose read raises has this in place of a record
LookupFails == [error |-> TRUE]

\* a variant of load_table_item that falls back on a default record
load_table_item_default(service_name, metric) ==
    IF <<service_name, metric>> \in DOMAIN catalog
       /\ catalog[<<service_name, metric>>] # LookupFails
    THEN catalog[<<service_name, metric>>]
    ELSE [thresholds |-> <<>>, dimensions |-> <<>>,
          actions_enabled |-> TRUE, comparison_operator |-> "GreaterThanThreshold",
          datapoints_to_alarm |-> 15, evaluation_periods |-> 15, namespace |-> "CWAgent",
          period |-> 60, statistic |-> "Average", treat_missing_data |-> "breaching",
          alarm_description |-> ""]

load_table_item(service_name, metric) ==
    IF <<service_name, metric>> \in DOMAIN catalog
       /\ catalog[<<service_name, metric>>] # LookupFails
    THEN catalog[<<service_name, metric>>]
    ELSE NoneItem

----------------------------------------------------------------------------
\* Name and route

\* first element of a sequence satisfying Name in target_names, as next(..., None)
target_names == {S_path, S_LogicalDisk}

\* a variant of found_value_of that takes the last dimension so named, not the first
found_value_of_last(dims) ==
    LET hits == {i \in DOMAIN dims : get(dims[i], "Name", NoneVal) \in target_names}
    IN IF hits = {} THEN NoneVal
       ELSE dims[CHOOSE i \in hits : \A j \in hits : i >= j]["Value"]

found_value_of(dims) ==
    LET hits == {i \in DOMAIN dims : get(dims[i], "Name", NoneVal) \in target_names}
    IN IF hits = {} THEN NoneVal
       ELSE dims[CHOOSE i \in hits : \A j \in hits : i <= j]["Value"]

name_prefix(ev) ==
    format(get(ev, "account_alias", <<>>)) \o <<"-">> \o
    format(get(ev, "account", <<>>)) \o <<"-">> \o
    format(get(ev, "service", <<>>)) \o <<"-">> \o
    format(get(ev, "resource_type", <<>>)) \o <<"-">> \o
    format(get(ev, "resource_id", <<>>))

severity_suffix(item) ==
    <<"S","e","v","e","r","i","t","y",":"," ">> \o format(get(item, "criticality", <<>>))

\* a variant of build_alarm_name that names the alarm after the event delivered
\* instead of the resource
build_alarm_name_by_event(ev, item) ==
    LET found_value == found_value_of(item["dimensions"])
        prefix == format(get(ev, "account_alias", <<>>)) \o <<"-">> \o
                  format(get(ev, "account", <<>>)) \o <<"-">> \o
                  format(get(ev, "service", <<>>)) \o <<"-">> \o
                  format(get(ev, "resource_type", <<>>)) \o <<"-">> \o
                  format(get(ev, "id", <<>>))
    IN IF truthy(found_value)
       THEN prefix \o <<"-">> \o format(get(item, "metric", <<>>)) \o <<"-">> \o
            <<"'">> \o found_value \o <<"'">> \o <<"-">> \o severity_suffix(item)
       ELSE prefix \o <<"-">> \o format(get(item, "metric", <<>>)) \o <<"-">> \o
            severity_suffix(item)

build_alarm_name(ev, item) ==
    LET found_value == found_value_of(item["dimensions"])
    IN IF truthy(found_value)
       THEN name_prefix(ev) \o <<"-">> \o format(get(item, "metric", <<>>)) \o <<"-">> \o
            <<"'">> \o found_value \o <<"'">> \o <<"-">> \o severity_suffix(item)
       ELSE name_prefix(ev) \o <<"-">> \o format(get(item, "metric", <<>>)) \o <<"-">> \o
            severity_suffix(item)

\* raises KeyError when region or account is not a key of the event
build_action_topic_arn_raises(ev) == ~ ({"region", "account"} \subseteq DOMAIN ev)

\* a variant of build_action_topic_arn that routes by the resolved criticality
build_action_topic_arn_by_criticality(ev, item) ==
    << <<"a","r","n",":","a","w","s",":","s","n","s",":">> \o format(ev["region"]) \o <<":">> \o
       format(ev["account"]) \o <<":">> \o
       <<"R","e","b","u","r","a","-","C","e","n","t","r","a","l","i","s","e","d","O","b","s","e","r","v","a","b","i","l","i","t","y","A","u","t","o","m","a","t","i","o","n","T","o","p","i","c">> \o
       item["criticality"] \o <<"-">> \o format(ev["region"]) >>

build_action_topic_arn(ev, item) ==
    << <<"a","r","n",":","a","w","s",":","s","n","s",":">> \o format(ev["region"]) \o <<":">> \o
       format(ev["account"]) \o <<":">> \o
       <<"R","e","b","u","r","a","-","C","e","n","t","r","a","l","i","s","e","d","O","b","s","e","r","v","a","b","i","l","i","t","y","A","u","t","o","m","a","t","i","o","n","T","o","p","i","c">> \o
       item["priority"] \o <<"-">> \o format(ev["region"]) >>

----------------------------------------------------------------------------
\* Threshold and dimension resolution

\* entries of the catalog's free-form lists
Dict(d) == [kind |-> "dict", val |-> d]
List(l) == [kind |-> "list", val |-> l]
Other(s) == [kind |-> "str", val |-> s]

\* d[k] = v on a dict
put(d, k, v) == (k :> v) @@ d

\* a variant of is_true that compares without lower-casing
is_true_cased(x) == str(x) = S_true

is_true(x) == lower(str(x)) = S_true

\* a variant of the pass in which a matching tier's threshold replaces any raw value
apply_threshold_entry_always(item, t, priority_token) ==
    IF t.kind = "dict" /\ get(t.val, "priority", NoneVal) = priority_token
    THEN LET i1 == IF "threshold" \in DOMAIN t.val
                   THEN put(item, "threshold", t.val["threshold"])
                   ELSE item
         IN IF "criticality" \in DOMAIN t.val
            THEN put(i1, "criticality", t.val["criticality"])
            ELSE i1
    ELSE IF t.kind = "list" /\ Len(t.val) >= 2
    THEN IF t.val[1] = priority_token
         THEN LET i1 == put(item, "threshold", t.val[2])
              IN IF "criticality" \in DOMAIN i1 THEN i1
                 ELSE put(i1, "criticality", priority_token)
         ELSE item
    ELSE item

\* a variant of the pass in which the first criticality set is kept
apply_threshold_entry_first(item, t, priority_token) ==
    IF t.kind = "dict" /\ get(t.val, "priority", NoneVal) = priority_token
    THEN LET i1 == IF is_true(item["threshold"]) /\ "threshold" \in DOMAIN t.val
                   THEN put(item, "threshold", t.val["threshold"])
                   ELSE item
         IN IF "criticality" \in DOMAIN t.val /\ "criticality" \notin DOMAIN i1
            THEN put(i1, "criticality", t.val["criticality"])
            ELSE i1
    ELSE IF t.kind = "list" /\ Len(t.val) >= 2
    THEN IF t.val[1] = priority_token /\ is_true(item["threshold"])
         THEN LET i1 == put(item, "threshold", t.val[2])
              IN IF "criticality" \in DOMAIN i1 THEN i1
                 ELSE put(i1, "criticality", priority_token)
         ELSE item
    ELSE item

\* one pass of the loop over table_item.thresholds (app.py 209-222)
apply_threshold_entry(item, t, priority_token) ==
    IF t.kind = "dict" /\ get(t.val, "priority", NoneVal) = priority_token
    THEN LET i1 == IF is_true(item["threshold"]) /\ "threshold" \in DOMAIN t.val
                   THEN put(item, "threshold", t.val["threshold"])
                   ELSE item
         IN IF "criticality" \in DOMAIN t.val
            THEN put(i1, "criticality", t.val["criticality"])
            ELSE i1
    ELSE IF t.kind = "list" /\ Len(t.val) >= 2
    THEN IF t.val[1] = priority_token /\ is_true(item["threshold"])
         THEN LET i1 == put(item, "threshold", t.val[2])
              IN IF "criticality" \in DOMAIN i1 THEN i1
                 ELSE put(i1, "criticality", priority_token)
         ELSE item
    ELSE item

RECURSIVE apply_thresholds(_, _, _)
apply_thresholds(item, thresholds, priority_token) ==
    IF Len(thresholds) = 0 THEN item
    ELSE apply_thresholds(apply_threshold_entry(item, Head(thresholds), priority_token),
                          Tail(thresholds), priority_token)

\* item.setdefault("criticality", priority_token)
set_default_criticality(item, priority_token) ==
    IF "criticality" \in DOMAIN item THEN item ELSE put(item, "criticality", priority_token)

\* one template dimension through the binding loop (app.py 228-244):
\* the dimensions to append to new_dimensions, none or one
\* a variant of bind_dimension that drops every dimension matching neither rule
bind_dimension_drop_unmatched(dim, identifier, resource_id, ev) ==
    IF dim.kind # "dict" THEN <<>>
    ELSE LET name == get(dim.val, "Name", NoneVal)
             metadata == get(ev, "metadata", <<>>)
         IN IF name = identifier THEN <<put(dim.val, "Value", resource_id)>>
            ELSE IF name \in DOMAIN metadata THEN <<put(dim.val, "Value", metadata[name])>>
            ELSE <<>>

\* a variant of bind_dimension that tries the metadata before the identifier
bind_dimension_metadata_first(dim, identifier, resource_id, ev) ==
    IF dim.kind # "dict" THEN <<>>
    ELSE LET name == get(dim.val, "Name", NoneVal)
             metadata == get(ev, "metadata", <<>>)
             bound == IF name \in DOMAIN metadata THEN put(dim.val, "Value", metadata[name])
                      ELSE IF name = identifier THEN put(dim.val, "Value", resource_id)
                      ELSE dim.val
         IN IF "Value" \in DOMAIN bound THEN <<bound>> ELSE <<>>

bind_dimension(dim, identifier, resource_id, ev) ==
    IF dim.kind # "dict" THEN <<>>
    ELSE LET name == get(dim.val, "Name", NoneVal)
             metadata == get(ev, "metadata", <<>>)
             bound == IF name = identifier THEN put(dim.val, "Value", resource_id)
                      ELSE IF name \in DOMAIN metadata THEN put(dim.val, "Value", metadata[name])
                      ELSE dim.val
         IN IF "Value" \in DOMAIN bound THEN <<bound>> ELSE <<>>

RECURSIVE bind_dimensions(_, _, _, _)
bind_dimensions(dims, identifier, resource_id, ev) ==
    IF Len(dims) = 0 THEN <<>>
    ELSE bind_dimension(Head(dims), identifier, resource_id, ev)
         \o bind_dimensions(Tail(dims), identifier, resource_id, ev)

\* a disk descriptor is an ordered dict: a sequence of <<key, value>>
NoDisk == <<>>
LinuxDisk(device, fstype, path) == <<<<S_device, device>>, <<S_fstype, fstype>>, <<S_path, path>>>>
WindowsDisk(letter) == <<<<S_LogicalDisk, letter>>>>

\* the dimensions appended for a disk (app.py 246-249)
disk_dimensions(disk, metric) ==
    IF disk # NoDisk /\ metric \in {EC2LINUXDISK_TAG, EC2WINDOWSDISK_TAG}
    THEN [i \in DOMAIN disk |-> [Name |-> disk[i][1], Value |-> disk[i][2]]]
    ELSE <<>>

\* get_table_item: [tag |-> "none"], [tag |-> "raise"] or [tag |-> "item", item |-> dict]
get_table_item(service, metric, priority_token, tag_value, identifier, resource_id, ev, disk) ==
    LET table_item == load_table_item(service, metric)
    IN IF table_item = NoneItem THEN [tag |-> "none"]
       ELSE
       LET base == [priority |-> priority_token,
                    metric |-> metric,
                    service |-> service,
                    threshold |-> PyStr(tag_value),
                    actions_enabled |-> table_item.actions_enabled,
                    comparison_operator |-> table_item.comparison_operator,
                    datapoints_to_alarm |-> table_item.datapoints_to_alarm,
                    evaluation_periods |-> table_item.evaluation_periods,
                    namespace |-> table_item.namespace,
                    period |-> table_item.period,
                    statistic |-> table_item.statistic,
                    treat_missing_data |-> table_item.treat_missing_data,
                    alarm_description |-> table_item.alarm_description]
           tiered == set_default_criticality(
                         apply_thresholds(base, table_item.thresholds, priority_token),
                         priority_token)
           new_dimensions == bind_dimensions(table_item.dimensions, identifier, resource_id, ev)
                             \o disk_dimensions(disk, metric)
           dimmed == put(tiered, "dimensions", new_dimensions)
           named == put(dimmed, "alarm_name", build_alarm_name(ev, dimmed))
       IN IF build_action_topic_arn_raises(ev) THEN [tag |-> "raise"]
          ELSE [tag |-> "item",
                item |-> put(named, "action_topic_arn", build_action_topic_arn(ev, named))]

----------------------------------------------------------------------------
\* get_alarms

\* the tag map as an ordered dict: a sequence of [k |-> key, v |-> value]
tags_of(ev) == get(get(ev, "detail", <<>>), "tags", <<>>)

\* the parse of one tag key (app.py 131-137): ok is FALSE where the loop continues
\* a variant of parse_tag_key that takes any last segment for a priority token
parse_tag_key_any_token(tag_key) ==
    LET parts == split(tag_key, ":")
        n == Len(parts)
    IN IF n < 3 THEN [ok |-> FALSE]
       ELSE [ok |-> TRUE, service |-> parts[n-2], metric |-> parts[n-1], priority_token |-> parts[n]]

parse_tag_key(tag_key) ==
    LET parts == split(tag_key, ":")
        n == Len(parts)
    IN IF n < 3 THEN [ok |-> FALSE]
       ELSE IF parts[n] \notin {P1, P2, P3} THEN [ok |-> FALSE]
       ELSE [ok |-> TRUE, service |-> parts[n-2], metric |-> parts[n-1], priority_token |-> parts[n]]

\* a variant of is_disk_metric that knows the Linux name only
is_disk_metric_linux_only(metric) == metric = EC2LINUXDISK_TAG

is_disk_metric(metric) == metric \in {EC2LINUXDISK_TAG, EC2WINDOWSDISK_TAG}

\* what get_alarms has built so far
EmptyAcc == [alarms |-> <<>>, metas |-> <<>>, lookups |-> <<>>, raised |-> FALSE]

\* one get_table_item call made by get_alarms, its outcome folded into acc
resolve_signal(acc, sig, ev, disk) ==
    LET r == get_table_item(sig.service, sig.metric, sig.priority_token, sig.tag_value,
                            ev["identifier"], ev["resource_id"], ev, disk)
        looked == [acc EXCEPT !.lookups = Append(@, <<sig.service, sig.metric>>)]
    IN IF r.tag = "raise" THEN [looked EXCEPT !.raised = TRUE]
       ELSE IF r.tag = "none" THEN looked
       ELSE [looked EXCEPT !.alarms = Append(@, r.item)]

\* one pass of the loop over the tags (app.py 130-149)
scan_tag(acc, tag, ev) ==
    LET sig == parse_tag_key(tag.k)
    IN IF ~sig.ok THEN acc
       ELSE IF is_disk_metric(sig.metric)
       THEN [acc EXCEPT !.metas = Append(@, [service |-> sig.service, metric |-> sig.metric,
                                             priority_token |-> sig.priority_token,
                                             tag_value |-> tag.v])]
       ELSE resolve_signal(acc, [service |-> sig.service, metric |-> sig.metric,
                                 priority_token |-> sig.priority_token, tag_value |-> tag.v],
                           ev, NoDisk)

RECURSIVE scan_tags(_, _, _)
scan_tags(acc, tags, ev) ==
    IF Len(tags) = 0 \/ acc.raised THEN acc
    ELSE scan_tags(scan_tag(acc, Head(tags), ev), Tail(tags), ev)

\* the inner loop over disk_meta_data for one disk (app.py 153-164)
RECURSIVE scan_metas(_, _, _, _)
scan_metas(acc, metas, ev, disk) ==
    IF Len(metas) = 0 \/ acc.raised THEN acc
    ELSE scan_metas(resolve_signal(acc, Head(metas), ev, disk), Tail(metas), ev, disk)

\* the loop over the disks (app.py 151-152)
RECURSIVE scan_disks(_, _, _)
scan_disks(acc, ds, ev) ==
    IF Len(ds) = 0 \/ acc.raised THEN acc
    ELSE scan_disks(scan_metas(acc, acc.metas, ev, Head(ds)), Tail(ds), ev)

\* get_alarms: the candidates, the catalog lookups made, and whether it raised
get_alarms(ev, ds) ==
    LET identifier == get(ev, "identifier", NoneVal)
        resource_id == get(ev, "resource_id", NoneVal)
    IN IF ~truthy(identifier) \/ ~truthy(resource_id) THEN EmptyAcc
       ELSE scan_disks(scan_tags(EmptyAcc, tags_of(ev), ev), ds, ev)

----------------------------------------------------------------------------
\* Disk discovery

S_Linux == <<"L","i","n","u","x">>
S_Windows == <<"W","i","n","d","o","w","s">>
S_windows == <<"w","i","n","d","o","w","s">>
S_linux == <<"l","i","n","u","x">>

\* the characters str.strip() and str.split() take for whitespace: tab, line
\* feed, vertical tab, form feed, carriage return, the separators 1C to 1F,
\* space, next line (85) and no-break space (A0)
Whitespace == {"\t", "\n", "", "\f", "\r", "", "", "", "", " ", "", " "}

\* the characters str.splitlines() takes for a line boundary: line feed,
\* vertical tab, form feed, carriage return, the separators 1C to 1E and next
\* line (85); a carriage return and the line feed after it are one boundary
LineBoundaries == {"\n", "", "\f", "\r", "", "", "", ""}

\* str.splitlines(): the lines without their boundaries, line the one being read
RECURSIVE splitlines_from(_, _, _, _)
splitlines_from(s, i, line, lines) ==
    IF i > Len(s) THEN IF line = <<>> THEN lines ELSE Append(lines, line)
    ELSE IF s[i] \in LineBoundaries
    THEN splitlines_from(s, IF s[i] = "\r" /\ i < Len(s) /\ s[i+1] = "\n" THEN i + 2 ELSE i + 1,
                         <<>>, Append(lines, line))
    ELSE splitlines_from(s, i + 1, Append(line, s[i]), lines)

splitlines(s) == splitlines_from(s, 1, <<>>, <<>>)

\* str.strip()
RECURSIVE lstrip(_)
lstrip(s) == IF Len(s) > 0 /\ s[1] \in Whitespace THEN lstrip(Tail(s)) ELSE s

RECURSIVE rstrip(_)
rstrip(s) ==
    IF Len(s) > 0 /\ s[Len(s)] \in Whitespace THEN rstrip(SubSeq(s, 1, Len(s) - 1)) ELSE s

strip(s) == rstrip(lstrip(s))

\* str.split() with no separator: the runs of non-whitespace
RECURSIVE split_whitespace_from(_, _, _)
split_whitespace_from(s, i, parts) ==
    IF i > Len(s) THEN parts
    ELSE split_whitespace_from(s, i + 1,
            IF s[i] \in Whitespace THEN parts
            ELSE IF i > 1 /\ s[i-1] \notin Whitespace
                 THEN [parts EXCEPT ![Len(parts)] = Append(@, s[i])]
                 ELSE Append(parts, <<s[i]>>))

split_whitespace(s) == split_whitespace_from(s, 1, <<>>)

\* os.path.basename
basename(path) == LET segs == split(path, "/") IN segs[Len(segs)]

\* get_os_type (app.py 321-330)
\* a variant of get_os_type that compares the platform without regard to case
get_os_type_any_case(e) ==
    IF e.describe = "raise" THEN NoneVal
    ELSE IF lower(get(e.instance, "Platform", S_Linux)) = S_windows THEN S_Windows
    ELSE S_Linux

get_os_type(e) ==
    IF e.describe = "raise" THEN NoneVal
    ELSE IF get(e.instance, "Platform", S_Linux) = S_windows THEN S_Windows
    ELSE S_Linux

\* the disks one output line yields, none or one (app.py 366-383)
parse_line(raw, os) ==
    LET line == strip(raw)
    IN IF line = <<>> THEN <<>>
       ELSE IF lower(os) = S_linux
       THEN LET parts == split_whitespace(line)
            IN IF Len(parts) < 3 THEN <<>>
               ELSE <<LinuxDisk(basename(parts[1]), parts[2], parts[3])>>
       ELSE <<WindowsDisk(line)>>

RECURSIVE parse_lines(_, _)
parse_lines(lines, os) ==
    IF Len(lines) = 0 THEN <<>>
    ELSE parse_line(Head(lines), os) \o parse_lines(Tail(lines), os)

\* the parse of the command output (app.py 361-385)
parse_output(output, os) == parse_lines(splitlines(get(output, "StandardOutputContent", <<>>)), os)

----------------------------------------------------------------------------
\* lambda_handler's removal of the dimensions whose Name equals their Value

\* list.remove(x): drops the first element equal to x
remove(l, x) ==
    LET i == CHOOSE j \in DOMAIN l : l[j] = x /\ \A k \in 1..(j-1) : l[k] # x
    IN SubSeq(l, 1, i - 1) \o SubSeq(l, i + 1, Len(l))

\* the for loop over a list that is changed under it: i is the iterator's index
RECURSIVE remove_unbound_from(_, _)
remove_unbound_from(dims, i) ==
    IF i > Len(dims) THEN [raised |-> FALSE, dims |-> dims]
    ELSE IF "Name" \notin DOMAIN dims[i] THEN [raised |-> TRUE, dims |-> dims]
    ELSE IF dims[i]["Name"] = dims[i]["Value"]
         THEN remove_unbound_from(remove(dims, dims[i]), i + 1)
         ELSE remove_unbound_from(dims, i + 1)

remove_unbound(dims) == remove_unbound_from(dims, 1)

\* the outer loop over event["alarm_config"] (app.py 104-107)
clean_alarms(alarms) ==
    [raised |-> \E i \in DOMAIN alarms : remove_unbound(alarms[i]["dimensions"]).raised,
     alarms |-> [i \in DOMAIN alarms |->
                    put(alarms[i], "dimensions", remove_unbound(alarms[i]["dimensions"]).dims)]]

----------------------------------------------------------------------------
\* Inputs

\* all sequences over S of length at most n
SeqsUpTo(S, n) == UNION {[1..k -> S] : k \in 0..n}

\* a dict with the keys K, each mapped by vals
dict_of(K, vals) == [k \in K |-> vals[k]]

\* an item of the table, its attributes as AlarmConfigTable declares them
\* (app.py 57-74); period is 60 in every item the repository writes
Item(namespace, comparison_operator, statistic, treat_missing_data, datapoints_to_alarm, evaluation_periods, alarm_description, thresholds, dimensions) ==
    [actions_enabled |-> TRUE,
     comparison_operator |-> comparison_operator,
     datapoints_to_alarm |-> datapoints_to_alarm,
     evaluation_periods |-> evaluation_periods,
     namespace |-> namespace,
     period |-> 60,
     statistic |-> statistic,
     treat_missing_data |-> treat_missing_data,
     alarm_description |-> alarm_description,
     thresholds |-> thresholds,
     dimensions |-> dimensions]

\* an item as a client may have saved it; only thresholds and dimensions vary
Template(thresholds, dimensions) ==
    Item("CWAgent", "GreaterThanThreshold", "Average", "breaching", 15, 15,
         "usage exceeds thresholds", thresholds, dimensions)

\* a threshold tier as the seed writes it
Tier(priority, threshold, criticality) ==
    Dict([priority |-> priority, threshold |-> PyInt(threshold), criticality |-> criticality])

\* threshold tiers as the catalog may store them
TierP1Dicts ==
    {Dict(dict_of({"priority"} \cup K, [priority |-> P1, threshold |-> th, criticality |-> cr])) :
        K \in SUBSET {"threshold", "criticality"},
        th \in {PyInt(S_95), PyInt(S_90)}, cr \in {Critical, High}}

TierShapes ==
    TierP1Dicts \cup
    {Dict([priority |-> P2, threshold |-> PyInt(S_90), criticality |-> High]),
     Dict([priority |-> P2, threshold |-> PyInt(S_90), criticality |-> Critical]),
     Dict([threshold |-> PyInt(S_90), criticality |-> High]),
     List(<<P1, PyInt(S_95)>>), List(<<P2, PyInt(S_90)>>), List(<<P1>>),
     Other(P1)}

\* the three tiers of most seeded items (seed_dynamodb/app.py 51-55)
SeedTiers == <<Tier(P1, S_95, Critical), Tier(P2, S_90, High), Tier(P3, S_80, Low)>>

\* template dimensions as the catalog may store them
Placeholder(name) == Dict([Name |-> name, Value |-> name])

S_Zone == <<"Z","o","n","e">>
S_a == <<"a">>
S_t2 == <<"t","2">>
S_var == <<"/","v","a","r">>
S_meta == <<"m","e","t","a">>

DimShapes ==
    {Placeholder(InstanceId), Placeholder(InstanceType), Placeholder(ImageId),
     Placeholder(S_path),
     Dict([Name |-> ImageId]),
     Dict([Name |-> S_Zone, Value |-> S_a]),
     Other(InstanceId)}

\* the dimensions of the seeded items of namespace AWS/EC2 (seed_dynamodb/app.py 49)
SeedDims == <<Placeholder(InstanceId)>>

\* the dimensions of the seeded items of namespace CWAgent (seed_dynamodb/app.py 141-146)
AgentDims ==
    <<Placeholder(InstanceId), Placeholder(InstanceType), Placeholder(ImageId),
      Placeholder(AutoScalingGroup)>>

\* the items seed_dynamodb writes (seed_dynamodb/app.py 36-620)
SeedItems ==
    (<<<<"E","C","2">>, <<"C","P","U","U","t","i","l","i","z","a","t","i","o","n">>>> :>
        Item("AWS/EC2", "GreaterThanThreshold", "Average", "breaching", 15, 15,
             "Triggered when CPU exceeds thresholds or becomes unreachable",
             SeedTiers,
             SeedDims))
    @@
    (<<<<"E","C","2">>, <<"S","t","a","t","u","s","C","h","e","c","k","F","a","i","l","e","d","_","I","n","s","t","a","n","c","e">>>> :>
        Item("AWS/EC2", "GreaterThanThreshold", "Maximum", "breaching", 1, 1,
             "Instance status check has failed.",
             <<Tier(P1, <<"1">>, Critical)>>,
             SeedDims))
    @@
    (<<<<"E","C","2">>, <<"m","e","m","_","u","s","e","d","_","p","e","r","c","e","n","t">>>> :>
        Item("CWAgent", "GreaterThanThreshold", "Average", "breaching", 15, 15,
             "Linux memory usage exceeds thresholds",
             SeedTiers,
             AgentDims))
    @@
    (<<<<"E","C","2">>, <<"M","e","m","o","r","y"," ","%"," ","C","o","m","m","i","t","t","e","d"," ","B","y","t","e","s"," ","I","n"," ","U","s","e">>>> :>
        Item("CWAgent", "GreaterThanThreshold", "Average", "breaching", 15, 15,
             "Windows memory usage exceeds thresholds",
             SeedTiers,
             AgentDims))
    @@
    (<<<<"E","C","2">>, <<"d","i","s","k","_","u","s","e","d","_","p","e","r","c","e","n","t">>>> :>
        Item("CWAgent", "GreaterThanThreshold", "Average", "breaching", 15, 15,
             "Linux disk usage exceeds thresholds",
             SeedTiers,
             AgentDims))
    @@
    (<<<<"E","C","2">>, <<"L","o","g","i","c","a","l","D","i","s","k"," ","%"," ","F","r","e","e"," ","S","p","a","c","e">>>> :>
        Item("CWAgent", "LessThanThreshold", "Average", "breaching", 15, 15,
             "Windows disk free space falls below thresholds",
             <<Tier(P1, <<"5">>, Critical), Tier(P2, <<"1","0">>, High), Tier(P3, <<"2","0">>, Low)>>,
             AgentDims))
    @@
    (<<<<"R","D","S">>, <<"F","r","e","e","S","t","o","r","a","g","e","S","p","a","c","e">>>> :>
        Item("AWS/RDS", "LessThanThreshold", "Minimum", "breaching", 15, 15,
             "Free storage falling below thresholds",
             <<Tier(P1, <<"5","0","0","0","0","0","0","0","0","0">>, Critical), Tier(P2, <<"1","0","0","0","0","0","0","0","0","0","0">>, High), Tier(P3, <<"2","0","0","0","0","0","0","0","0","0","0">>, Low)>>,
             <<Placeholder(<<"D","B","I","n","s","t","a","n","c","e","I","d","e","n","t","i","f","i","e","r">>)>>))
    @@
    (<<<<"E","L","B">>, <<"U","n","H","e","a","l","t","h","y","H","o","s","t","C","o","u","n","t">>>> :>
        Item("AWS/ELB", "GreaterThanThreshold", "Average", "notBreaching", 3, 3,
             "One or more ELB hosts reported as unhealthy",
             <<Tier(P1, <<"3">>, Critical), Tier(P2, <<"2">>, High), Tier(P3, <<"1">>, Low)>>,
             <<Placeholder(<<"L","o","a","d","B","a","l","a","n","c","e","r","N","a","m","e">>)>>))
    @@
    (<<<<"L","a","m","b","d","a">>, <<"E","r","r","o","r","s">>>> :>
        Item("AWS/Lambda", "GreaterThanThreshold", "Sum", "notBreaching", 2, 2,
             "Lambda function errors exceed thresholds",
             <<Tier(P1, <<"5">>, Critical), Tier(P2, <<"3">>, High), Tier(P3, <<"1">>, Low)>>,
             <<Placeholder(<<"F","u","n","c","t","i","o","n","N","a","m","e">>)>>))
    @@
    (<<<<"E","B","S">>, <<"B","u","r","s","t","B","a","l","a","n","c","e">>>> :>
        Item("AWS/EBS", "LessThanThreshold", "Average", "notBreaching", 3, 3,
             "EBS burst balance running low",
             <<Tier(P1, <<"1","0">>, Critical), Tier(P2, <<"1","5">>, High), Tier(P3, <<"2","0">>, Low)>>,
             <<Placeholder(<<"V","o","l","u","m","e","I","d">>)>>))
    @@
    (<<<<"D","y","n","a","m","o","D","B">>, <<"C","o","n","s","u","m","e","d","R","e","a","d","C","a","p","a","c","i","t","y","U","n","i","t","s">>>> :>
        Item("AWS/DynamoDB", "GreaterThanThreshold", "Sum", "notBreaching", 15, 15,
             "Read capacity usage approaching provisioned limit",
             <<Tier(P1, <<"9","0">>, Critical), Tier(P2, <<"8","0">>, High), Tier(P3, <<"7","0">>, Low)>>,
             <<Placeholder(<<"T","a","b","l","e","N","a","m","e">>)>>))
    @@
    (<<<<"D","y","n","a","m","o","D","B">>, <<"C","o","n","s","u","m","e","d","W","r","i","t","e","C","a","p","a","c","i","t","y","U","n","i","t","s">>>> :>
        Item("AWS/DynamoDB", "GreaterThanThreshold", "Sum", "notBreaching", 15, 15,
             "Write capacity usage approaching provisioned limit",
             <<Tier(P1, <<"9","0">>, Critical), Tier(P2, <<"8","0">>, High), Tier(P3, <<"7","0">>, Low)>>,
             <<Placeholder(<<"T","a","b","l","e","N","a","m","e">>)>>))
    @@
    (<<<<"D","y","n","a","m","o","D","B">>, <<"S","y","s","t","e","m","E","r","r","o","r","s">>>> :>
        Item("AWS/DynamoDB", "GreaterThanThreshold", "Sum", "notBreaching", 3, 3,
             "DynamoDB system errors detected",
             <<Tier(P1, <<"5">>, Critical), Tier(P2, <<"3">>, High), Tier(P3, <<"1">>, Low)>>,
             <<Placeholder(<<"T","a","b","l","e","N","a","m","e">>)>>))
    @@
    (<<<<"S","3">>, <<"4","x","x","E","r","r","o","r","s">>>> :>
        Item("AWS/S3", "GreaterThanThreshold", "Sum", "notBreaching", 15, 15,
             "S3 client errors (4xx) exceeding thresholds",
             <<Tier(P1, <<"1","0","0","0">>, Critical), Tier(P2, <<"5","0","0">>, High), Tier(P3, <<"1","0","0">>, Low)>>,
             <<Placeholder(<<"B","u","c","k","e","t","N","a","m","e">>)>>))
    @@
    (<<<<"S","3">>, <<"5","x","x","E","r","r","o","r","s">>>> :>
        Item("AWS/S3", "GreaterThanThreshold", "Sum", "notBreaching", 15, 15,
             "S3 server errors (5xx) exceeding thresholds",
             <<Tier(P1, <<"1","0","0">>, Critical), Tier(P2, <<"5","0">>, High), Tier(P3, <<"1","0">>, Low)>>,
             <<Placeholder(<<"B","u","c","k","e","t","N","a","m","e">>)>>))
    @@
    (<<<<"S","3">>, <<"F","i","r","s","t","B","y","t","e","L","a","t","e","n","c","y">>>> :>
        Item("AWS/S3", "GreaterThanThreshold", "Average", "notBreaching", 15, 15,
             "S3 latency exceeds thresholds",
             <<Tier(P1, <<"1","0","0","0">>, Critical), Tier(P2, <<"5","0","0">>, High), Tier(P3, <<"2","0","0">>, Low)>>,
             <<Placeholder(<<"B","u","c","k","e","t","N","a","m","e">>)>>))
    @@
    (<<<<"E","C","S">>, <<"C","P","U","U","t","i","l","i","z","a","t","i","o","n">>>> :>
        Item("AWS/ECS", "GreaterThanThreshold", "Average", "breaching", 15, 15,
             "ECS CPU usage exceeds thresholds",
             SeedTiers,
             <<Placeholder(<<"C","l","u","s","t","e","r","N","a","m","e">>)>>))
    @@
    (<<<<"E","C","S">>, <<"M","e","m","o","r","y","U","t","i","l","i","z","a","t","i","o","n">>>> :>
        Item("AWS/ECS", "GreaterThanThreshold", "Average", "breaching", 15, 15,
             "ECS memory usage exceeds thresholds",
             SeedTiers,
             <<Placeholder(<<"C","l","u","s","t","e","r","N","a","m","e">>)>>))
    @@
    (<<<<"A","P","I","G","a","t","e","w","a","y">>, <<"5","X","X","E","r","r","o","r">>>> :>
        Item("AWS/ApiGateway", "GreaterThanThreshold", "Sum", "notBreaching", 3, 3,
             "API Gateway 5xx errors detected",
             <<Tier(P1, <<"1","0","0">>, Critical), Tier(P2, <<"5","0">>, High), Tier(P3, <<"1","0">>, Low)>>,
             <<Placeholder(<<"A","p","i","N","a","m","e">>)>>))
    @@
    (<<<<"A","P","I","G","a","t","e","w","a","y">>, <<"4","X","X","E","r","r","o","r">>>> :>
        Item("AWS/ApiGateway", "GreaterThanThreshold", "Sum", "notBreaching", 15, 15,
             "API Gateway 4xx errors detected",
             <<Tier(P1, <<"1","0","0","0">>, Critical), Tier(P2, <<"5","0","0">>, High), Tier(P3, <<"1","0","0">>, Low)>>,
             <<Placeholder(<<"A","p","i","N","a","m","e">>)>>))
    @@
    (<<<<"A","P","I","G","a","t","e","w","a","y">>, <<"L","a","t","e","n","c","y">>>> :>
        Item("AWS/ApiGateway", "GreaterThanThreshold", "Average", "notBreaching", 15, 15,
             "API Gateway latency exceeds thresholds",
             <<Tier(P1, <<"2","0","0","0">>, Critical), Tier(P2, <<"1","5","0","0">>, High), Tier(P3, <<"1","0","0","0">>, Low)>>,
             <<Placeholder(<<"A","p","i","N","a","m","e">>)>>))
    @@
    (<<<<"C","l","o","u","d","F","r","o","n","t">>, <<"5","x","x","E","r","r","o","r","R","a","t","e">>>> :>
        Item("AWS/CloudFront", "GreaterThanThreshold", "Average", "notBreaching", 3, 3,
             "CloudFront 5xx error rate exceeds thresholds",
             <<Tier(P1, <<"5">>, Critical), Tier(P2, <<"3">>, High), Tier(P3, <<"1">>, Low)>>,
             <<Placeholder(<<"D","i","s","t","r","i","b","u","t","i","o","n","I","d">>)>>))
    @@
    (<<<<"C","l","o","u","d","F","r","o","n","t">>, <<"T","o","t","a","l","E","r","r","o","r","R","a","t","e">>>> :>
        Item("AWS/CloudFront", "GreaterThanThreshold", "Average", "notBreaching", 3, 3,
             "CloudFront total error rate exceeds thresholds",
             <<Tier(P1, <<"1","0">>, Critical), Tier(P2, <<"5">>, High), Tier(P3, <<"2">>, Low)>>,
             <<Placeholder(<<"D","i","s","t","r","i","b","u","t","i","o","n","I","d">>)>>))
    @@
    (<<<<"R","D","S">>, <<"C","P","U","U","t","i","l","i","z","a","t","i","o","n">>>> :>
        Item("AWS/RDS", "GreaterThanThreshold", "Average", "breaching", 15, 15,
             "RDS CPU usage exceeds thresholds",
             SeedTiers,
             <<Placeholder(<<"D","B","I","n","s","t","a","n","c","e","I","d","e","n","t","i","f","i","e","r">>)>>))
    @@
    (<<<<"R","D","S">>, <<"D","a","t","a","b","a","s","e","C","o","n","n","e","c","t","i","o","n","s">>>> :>
        Item("AWS/RDS", "GreaterThanThreshold", "Average", "breaching", 15, 15,
             "RDS connections approaching limit",
             <<Tier(P1, <<"1","0","0","0">>, Critical), Tier(P2, <<"7","5","0">>, High), Tier(P3, <<"5","0","0">>, Low)>>,
             <<Placeholder(<<"D","B","I","n","s","t","a","n","c","e","I","d","e","n","t","i","f","i","e","r">>)>>))
    @@
    (<<<<"R","D","S">>, <<"F","r","e","e","a","b","l","e","M","e","m","o","r","y">>>> :>
        Item("AWS/RDS", "LessThanThreshold", "Minimum", "breaching", 15, 15,
             "RDS freeable memory falling below thresholds",
             <<Tier(P1, <<"2","0","0","0","0","0","0","0","0">>, Critical), Tier(P2, <<"5","0","0","0","0","0","0","0","0">>, High), Tier(P3, <<"1","0","0","0","0","0","0","0","0","0">>, Low)>>,
             <<Placeholder(<<"D","B","I","n","s","t","a","n","c","e","I","d","e","n","t","i","f","i","e","r">>)>>))

\* the keys of the seed's items in the order of seed_items (seed_dynamodb/app.py
\* 35-621)
SeedOrder ==
    <<<<<<"E","C","2">>, <<"C","P","U","U","t","i","l","i","z","a","t","i","o","n">>>>,
      <<<<"E","C","2">>, <<"S","t","a","t","u","s","C","h","e","c","k","F","a","i","l","e","d","_","I","n","s","t","a","n","c","e">>>>,
      <<<<"E","C","2">>, <<"m","e","m","_","u","s","e","d","_","p","e","r","c","e","n","t">>>>,
      <<<<"E","C","2">>, <<"M","e","m","o","r","y"," ","%"," ","C","o","m","m","i","t","t","e","d"," ","B","y","t","e","s"," ","I","n"," ","U","s","e">>>>,
      <<<<"E","C","2">>, <<"d","i","s","k","_","u","s","e","d","_","p","e","r","c","e","n","t">>>>,
      <<<<"E","C","2">>, <<"L","o","g","i","c","a","l","D","i","s","k"," ","%"," ","F","r","e","e"," ","S","p","a","c","e">>>>,
      <<<<"R","D","S">>, <<"F","r","e","e","S","t","o","r","a","g","e","S","p","a","c","e">>>>,
      <<<<"E","L","B">>, <<"U","n","H","e","a","l","t","h","y","H","o","s","t","C","o","u","n","t">>>>,
      <<<<"L","a","m","b","d","a">>, <<"E","r","r","o","r","s">>>>,
      <<<<"E","B","S">>, <<"B","u","r","s","t","B","a","l","a","n","c","e">>>>,
      <<<<"D","y","n","a","m","o","D","B">>, <<"C","o","n","s","u","m","e","d","R","e","a","d","C","a","p","a","c","i","t","y","U","n","i","t","s">>>>,
      <<<<"D","y","n","a","m","o","D","B">>, <<"C","o","n","s","u","m","e","d","W","r","i","t","e","C","a","p","a","c","i","t","y","U","n","i","t","s">>>>,
      <<<<"D","y","n","a","m","o","D","B">>, <<"S","y","s","t","e","m","E","r","r","o","r","s">>>>,
      <<<<"S","3">>, <<"4","x","x","E","r","r","o","r","s">>>>,
      <<<<"S","3">>, <<"5","x","x","E","r","r","o","r","s">>>>,
      <<<<"S","3">>, <<"F","i","r","s","t","B","y","t","e","L","a","t","e","n","c","y">>>>,
      <<<<"E","C","S">>, <<"C","P","U","U","t","i","l","i","z","a","t","i","o","n">>>>,
      <<<<"E","C","S">>, <<"M","e","m","o","r","y","U","t","i","l","i","z","a","t","i","o","n">>>>,
      <<<<"A","P","I","G","a","t","e","w","a","y">>, <<"5","X","X","E","r","r","o","r">>>>,
      <<<<"A","P","I","G","a","t","e","w","a","y">>, <<"4","X","X","E","r","r","o","r">>>>,
      <<<<"A","P","I","G","a","t","e","w","a","y">>, <<"L","a","t","e","n","c","y">>>>,
      <<<<"C","l","o","u","d","F","r","o","n","t">>, <<"5","x","x","E","r","r","o","r","R","a","t","e">>>>,
      <<<<"C","l","o","u","d","F","r","o","n","t">>, <<"T","o","t","a","l","E","r","r","o","r","R","a","t","e">>>>,
      <<<<"R","D","S">>, <<"C","P","U","U","t","i","l","i","z","a","t","i","o","n">>>>,
      <<<<"R","D","S">>, <<"D","a","t","a","b","a","s","e","C","o","n","n","e","c","t","i","o","n","s">>>>,
      <<<<"R","D","S">>, <<"F","r","e","e","a","b","l","e","M","e","m","o","r","y">>>>>>


\* metadata maps the cleaner may have extracted
Metadatas ==
    {<<>>,
     [k \in {InstanceType} |-> S_t2],
     [k \in {S_path} |-> S_var],
     [k \in {S_path} |-> <<>>],
     [k \in {InstanceId, InstanceType} |-> S_meta]}

S_acme == <<"a","c","m","e">>
S_111 == <<"1","1","1">>
S_eu == <<"e","u">>
S_i1 == <<"i","-","1">>

BaseEvent ==
    [account_alias |-> S_acme, account |-> S_111, region |-> S_eu,
     service |-> S_ec2, resource_type |-> S_instance, resource_id |-> S_i1,
     identifier |-> InstanceId, cloudwatch |-> TRUE, metadata |-> <<>>,
     detail |-> [tags |-> <<>>]]

\* d without the key k
without(d, k) == [x \in DOMAIN d \ {k} |-> d[x]]

\* disk descriptors as discover_disks builds them
S_xa == <<"x","a">>
S_xb == <<"x","b">>
S_ext4 == <<"e","x","t","4">>
S_xfs == <<"x","f","s">>
S_root == <<"/">>
S_data == <<"/","d","a","t","a">>
S_C == <<"C">>
S_D == <<"D">>


TagValues == {S_true, S_True, S_TRUE, S_80}

Call(service, metric, priority_token, tag_value, disk) ==
    [tag |-> "call", service |-> service, metric |-> metric,
     priority_token |-> priority_token, tag_value |-> tag_value, disk |-> disk]

Input(c, ev, cat) == [call |-> c, event |-> ev, catalog |-> cat]

OneTemplate(metric, tpl) == [k \in {<<S_EC2, metric>>} |-> tpl]

\* get_table_item inputs that vary the tiers
TierInputs ==
    {Input(Call(S_EC2, S_cpu, p, v, NoDisk), BaseEvent,
           OneTemplate(S_cpu, Template(tiers, SeedDims))) :
        p \in {P1, P2}, v \in TagValues, tiers \in SeqsUpTo(TierShapes, MaxTiers)}

DiskCalls ==
    {<<S_cpu, NoDisk>>, <<EC2LINUXDISK_TAG, NoDisk>>,
     <<EC2LINUXDISK_TAG, LinuxDisk(S_xa, S_ext4, S_root)>>,
     <<EC2LINUXDISK_TAG, LinuxDisk(S_xb, S_xfs, S_data)>>,
     <<EC2WINDOWSDISK_TAG, WindowsDisk(S_C)>>,
     <<S_cpu, LinuxDisk(S_xa, S_ext4, S_root)>>}

\* each disk call without metadata, each metadata without a disk, and one with both
DimContexts ==
    {<<dc, <<>>>> : dc \in DiskCalls}
    \cup {<<<<S_cpu, NoDisk>>, md>> : md \in Metadatas}
    \cup {<<<<EC2LINUXDISK_TAG, LinuxDisk(S_xa, S_ext4, S_root)>>, [k \in {S_path} |-> S_var]>>}

\* get_table_item inputs that vary the dimensions, the metadata and the disk
DimInputs ==
    {Input(Call(S_EC2, c[1][1], P1, S_true, c[1][2]), [BaseEvent EXCEPT !.metadata = c[2]],
           OneTemplate(c[1][1], Template(SeedTiers, dims))) :
        c \in DimContexts, dims \in SeqsUpTo(DimShapes, MaxDims)}

\* get_table_item inputs that vary the context the name and the route need
ContextInputs ==
    {Input(Call(S_EC2, m, P1, S_true, NoDisk), ev, OneTemplate(S_cpu, Template(SeedTiers, SeedDims))) :
        m \in {S_cpu, S_mem},
        ev \in {BaseEvent, without(BaseEvent, "region"), without(BaseEvent, "account"),
                without(BaseEvent, "account_alias"),
                [BaseEvent EXCEPT !.account_alias = <<>>],
                [BaseEvent EXCEPT !.service = NoneVal, !.resource_type = NoneVal]}}

ItemInputs == TierInputs \cup DimInputs \cup ContextInputs

\* tag keys of the resource: namespace:service:metric:priority and others
S_n == <<"n">>
S_m == <<"m">>
TagKey(segments) == join(segments, ":")

K_cpu_P1 == TagKey(<<S_n, S_EC2, S_cpu, P1>>)
K_cpu_P1_other_ns == TagKey(<<S_m, S_EC2, S_cpu, P1>>)
K_cpu_P2 == TagKey(<<S_n, S_EC2, S_cpu, P2>>)
K_ldisk_P1 == TagKey(<<S_n, S_EC2, EC2LINUXDISK_TAG, P1>>)
K_wdisk_P1 == TagKey(<<S_n, S_EC2, EC2WINDOWSDISK_TAG, P1>>)
K_mem_P1 == TagKey(<<S_n, S_EC2, S_mem, P1>>)
K_cpu_P4 == TagKey(<<S_n, S_EC2, S_cpu, P4>>)
K_cpu_P3 == TagKey(<<S_n, S_EC2, S_cpu, P3>>)
K_status_P2 == TagKey(<<S_n, S_EC2, S_status, P2>>)
K_two_segments == TagKey(<<S_cpu, P1>>)
\* the signal of the item the seed writes last
K_freeable_P1 == TagKey(<<S_n, SeedOrder[Len(SeedOrder)][1], SeedOrder[Len(SeedOrder)][2], P1>>)

Tag(k, v) == [k |-> k, v |-> v]

TagPairs ==
    {Tag(K_cpu_P1, S_true), Tag(K_cpu_P1, S_80), Tag(K_cpu_P1_other_ns, S_true),
     Tag(K_cpu_P2, S_true), Tag(K_ldisk_P1, S_true),
     Tag(K_wdisk_P1, S_true), Tag(K_mem_P1, S_true), Tag(K_cpu_P4, S_true),
     Tag(K_two_segments, S_true)}

\* a dict has each key once
TagMaps ==
    {tags \in SeqsUpTo(TagPairs, MaxTags) :
        \A i, j \in DOMAIN tags : i # j => tags[i].k # tags[j].k}

Catalog3(cpu, ldisk, wdisk) ==
    (<<S_EC2, S_cpu>> :> cpu) @@ (<<S_EC2, EC2LINUXDISK_TAG>> :> ldisk)
        @@ (<<S_EC2, EC2WINDOWSDISK_TAG>> :> wdisk)

\* the table as the seed leaves it
SeedCatalog == SeedItems

\* the table before the seed has run
EmptyTable == [k \in {} |-> LookupFails]

Catalogs ==
    {SeedCatalog,
     Catalog3(Template(<<Dict([priority |-> P1, threshold |-> PyInt(S_95), criticality |-> Critical]),
                         Dict([priority |-> P2, threshold |-> PyInt(S_90), criticality |-> Critical])>>,
                       SeedDims),
              Template(SeedTiers, <<Placeholder(InstanceId), Placeholder(S_path)>>),
              Template(SeedTiers, SeedDims)),
     OneTemplate(S_cpu, Template(SeedTiers, <<Placeholder(ImageId), Placeholder(InstanceId)>>))
        @@ (<<S_EC2, S_mem>> :> LookupFails)}

\* catalogs whose cpu template holds entries of other shapes than the seed's
MalformedCatalogs ==
    {OneTemplate(S_cpu, Template(<<List(<<P1>>), Other(P1)>>,
                                 <<Dict([Name |-> ImageId]), Other(InstanceId),
                                   Placeholder(InstanceId)>>)),
     OneTemplate(S_cpu, Template(<<>>, <<>>)),
     OneTemplate(S_cpu, Template(SeedTiers, <<Placeholder(InstanceId), Dict([Value |-> S_a])>>))}

\* what EC2 and SSM answer
Response(status, text) == [Status |-> status, StandardOutputContent |-> text]

\* sts is what sts.assume_role does: "ok", "raise", or "no_credentials" for an
\* answer without Credentials
Env(describe, instance, send, invoke, response) ==
    [sts |-> "ok", describe |-> describe, instance |-> instance, send |-> send,
     invoke |-> invoke, response |-> response]

NoInvocation == Response("none", <<>>)
QuietEnv == Env("raise", <<>>, "raise", "raise", NoInvocation)

\* the role cannot be assumed, or the answer holds no credentials
NoRoleEnvs == {[QuietEnv EXCEPT !.sts = "raise"], [QuietEnv EXCEPT !.sts = "no_credentials"]}

L_xa == <<"/","d","e","v","/","x","a"," ","e","x","t","4"," ","/">>
L_xb == <<"/","d","e","v","/","x","b"," ","x","f","s"," ","/","d","a","t","a">>
L_spaced == <<"/","d","e","v","/","x","c"," ","x","f","s"," ","/","m","y"," ","d","a","t","a">>
L_short == <<"t","m","p","f","s"," ","t","m","p","f","s">>
L_blank == <<" ">>

LinuxLines == {L_xa, L_xb, L_spaced, L_short, L_blank}
WindowsLines == {S_C, S_D, L_blank}

Text(lines) == join(lines, "\n")

\* the output of a command that ends its lines with CR LF
RECURSIVE CrLfText(_)
CrLfText(lines) ==
    IF Len(lines) = 0 THEN <<>>
    ELSE Head(lines) \o <<"\r", "\n">> \o CrLfText(Tail(lines))

LinuxInstances == {<<>>, [Platform |-> S_linux], [Platform |-> S_Windows]}
WindowsInstances == {[Platform |-> S_windows]}

\* the answers a run may get when the command gives no output
StatusEnvs ==
    {Env("raise", <<>>, "raise", "raise", NoInvocation)}
    \cup NoRoleEnvs
    \cup {Env("ok", i, "raise", "raise", NoInvocation) : i \in LinuxInstances \cup WindowsInstances}
    \cup {Env("ok", i, "ok", "raise", NoInvocation) : i \in LinuxInstances \cup WindowsInstances}
    \cup {Env("ok", i, "ok", "ok", Response(st, <<>>)) :
            i \in LinuxInstances \cup WindowsInstances, st \in {"Pending", "InProgress", "Failed"}}
    \cup {Env("ok", i, "ok", "ok", [Status |-> "Success"]) : i \in LinuxInstances}

\* the answers a run may get when the command succeeds, its output up to
\* MaxLines lines
LinuxOutputEnvs ==
    {Env("ok", <<>>, "ok", "ok", Response("Success", Text(ls))) :
        ls \in SeqsUpTo(LinuxLines, MaxLines)}
    \cup {Env("ok", i, "ok", "ok", Response("Success", Text(<<L_xa, L_xb>>))) : i \in LinuxInstances}
    \cup {Env("ok", <<>>, "ok", "ok", Response("Success", CrLfText(<<L_xa, L_xb>>)))}

WindowsOutputEnvs ==
    {Env("ok", i, "ok", "ok", Response("Success", Text(ls) \o <<"\n">>)) :
        i \in WindowsInstances, ls \in SeqsUpTo(WindowsLines, MaxLines)}

Envs == StatusEnvs \cup LinuxOutputEnvs \cup WindowsOutputEnvs

DiskEnv == Env("ok", <<>>, "ok", "ok", Response("Success", Text(<<L_xa, L_xb>>)))

FewEnvs ==
    {QuietEnv, DiskEnv,
     Env("ok", [Platform |-> S_windows], "ok", "ok", Response("Success", CrLfText(<<S_C, S_D>>))),
     Env("ok", <<>>, "ok", "ok", Response("Success", Text(<<L_xb, L_xb>>))),
     Env("ok", <<>>, "ok", "ok", Response("Success", Text(<<L_short>>))),
     Env("ok", [Platform |-> S_windows], "ok", "ok", Response("Success", Text(<<S_C, S_D>>)))}

\* events of resources that get no disk discovery
PlainEvents ==
    {[BaseEvent EXCEPT !.cloudwatch = FALSE],
     [BaseEvent EXCEPT !.cloudwatch = FALSE, !.metadata = [k \in {InstanceType} |-> S_t2]],
     [BaseEvent EXCEPT !.service = S_s3, !.resource_type = S_bucket],
     without([BaseEvent EXCEPT !.cloudwatch = FALSE], "region"),
     without([BaseEvent EXCEPT !.cloudwatch = FALSE], "account"),
     without([BaseEvent EXCEPT !.cloudwatch = FALSE], "resource_id"),
     [BaseEvent EXCEPT !.cloudwatch = FALSE, !.resource_id = NoneVal],
     [BaseEvent EXCEPT !.cloudwatch = FALSE, !.identifier = NoneVal],
     without(BaseEvent, "resource_id")}

\* events of instances that get disk discovery
AgentEvents ==
    {[BaseEvent EXCEPT !.metadata = [k \in {InstanceType} |-> S_t2]],
     [BaseEvent EXCEPT !.identifier = NoneVal]}

WithTags(ev, tags) == [ev EXCEPT !.detail = [tags |-> tags]]

RunInput(ev, cat, e) == [event |-> ev, catalog |-> cat, env |-> e]

\* runs on the table before and after the seed, with tags of each tier, of an
\* item that has one tier only and of the item the seed writes last
TableInputs ==
    {RunInput(WithTags([BaseEvent EXCEPT !.cloudwatch = FALSE], tags), cat, QuietEnv) :
        tags \in {<<Tag(K_cpu_P1_other_ns, S_true), Tag(K_cpu_P2, S_true)>>,
                  <<Tag(K_cpu_P3, S_true), Tag(K_mem_P1, S_true)>>,
                  <<Tag(K_status_P2, S_true), Tag(K_cpu_P1, S_true)>>,
                  <<Tag(K_cpu_P1, S_true), Tag(K_freeable_P1, S_true)>>},
        cat \in {EmptyTable, SeedCatalog}}

\* the tag maps of one tag, and some of two
FewTagMaps ==
    {t \in TagMaps : Len(t) <= 1}
    \cup {<<Tag(K_cpu_P1, S_80), Tag(K_mem_P1, S_true)>>,
          <<Tag(K_cpu_P1, S_true), Tag(K_ldisk_P1, S_true)>>,
          <<Tag(K_ldisk_P1, S_true), Tag(K_wdisk_P1, S_true)>>}

\* tag maps of two signals of one item
TwoTierTagMaps ==
    {<<Tag(K_cpu_P1, S_80), Tag(K_cpu_P2, S_true)>>,
     <<Tag(K_cpu_P1, S_true), Tag(K_cpu_P1_other_ns, S_true)>>,
     <<Tag(K_cpu_P4, S_true), Tag(K_cpu_P1, S_true)>>}

HintedTags == <<Tag(K_cpu_P1, S_true), Tag(K_ldisk_P1, S_true)>>

\* the tag maps of an instance with disks: up to MaxTags signals, disk hints
\* and keys that name no signal
DiskTagMaps ==
    {tags \in TagMaps :
        \A i \in DOMAIN tags :
            tags[i] \in {Tag(K_cpu_P1, S_true), Tag(K_cpu_P2, S_true), Tag(K_ldisk_P1, S_true),
                         Tag(K_wdisk_P1, S_true), Tag(K_mem_P1, S_true),
                         Tag(K_two_segments, S_true)}}

RunInputs ==
    TableInputs
    \cup
    {RunInput(WithTags(ev, tags), SeedCatalog, QuietEnv) :
        ev \in PlainEvents,
        tags \in {<<>>, <<Tag(K_cpu_P1, S_true)>>, <<Tag(K_cpu_P1, S_80)>>,
                  <<Tag(K_cpu_P2, S_true)>>, HintedTags}}
    \cup {RunInput(WithTags([BaseEvent EXCEPT !.cloudwatch = FALSE], tags), cat, QuietEnv) :
        tags \in FewTagMaps \cup TwoTierTagMaps, cat \in Catalogs}
    \cup {RunInput(WithTags(BaseEvent, tags), SeedCatalog, e) :
        tags \in FewTagMaps, e \in FewEnvs}
    \cup {RunInput(WithTags(BaseEvent, tags), SeedCatalog, DiskEnv) :
        tags \in DiskTagMaps}
    \cup {RunInput(WithTags(BaseEvent, tags), cat, DiskEnv) :
        tags \in FewTagMaps, cat \in Catalogs}
    \cup {RunInput(WithTags(ev, tags), SeedCatalog, e) :
        ev \in AgentEvents, tags \in FewTagMaps, e \in {QuietEnv, DiskEnv}}
    \cup {RunInput(WithTags(BaseEvent, tags), SeedCatalog, e) :
        tags \in {<<>>, HintedTags, <<Tag(K_wdisk_P1, S_80)>>},
        e \in StatusEnvs}
    \cup {RunInput(WithTags(BaseEvent, HintedTags), SeedCatalog, e) : e \in LinuxOutputEnvs}
    \cup {RunInput(WithTags(BaseEvent, <<Tag(K_wdisk_P1, S_80)>>), SeedCatalog, e) :
        e \in WindowsOutputEnvs}
    \cup {RunInput(WithTags(ev, tags), cat, QuietEnv) :
        ev \in {[BaseEvent EXCEPT !.cloudwatch = FALSE],
                [BaseEvent EXCEPT !.cloudwatch = FALSE, !.metadata = [k \in {InstanceType} |-> S_t2]]},
        tags \in {t \in FewTagMaps : Len(t) = 1},
        cat \in MalformedCatalogs}

----------------------------------------------------------------------------
\* A direct call of get_table_item

NoCall == [tag |-> "nocall"]

InitItem ==
    /\ \E inp \in ItemInputs :
          /\ call = inp.call
          /\ event = inp.event
          /\ catalog = inp.catalog
    /\ ret = [tag |-> "pending"]
    /\ pc = "idle"
    /\ os_type = NoneVal
    /\ disks = <<>>
    /\ alarm_config = <<>>
    /\ lookups = <<>>
    /\ env = QuietEnv
    /\ sent = 0
    /\ invocation = NoInvocation
    /\ NoWorkflow
    /\ NoWait
    /\ table_writes = 0
    /\ writers = <<>>

CallGetTableItem ==
    /\ call.tag = "call"
    /\ ret.tag = "pending"
    /\ ret' = get_table_item(call.service, call.metric, call.priority_token, call.tag_value,
                             event["identifier"], event["resource_id"], event, call.disk)
    /\ UNCHANGED <<workflowVars, waitVars, event, tableVars, pc, os_type, disks, alarm_config, lookups,
                   env, sent, invocation, call>>

NextItem == CallGetTableItem

SpecItem == InitItem /\ [][NextItem]_vars

----------------------------------------------------------------------------
\* What the claims about get_table_item speak of

\* the tiers of the template the call resolves against
CallTiers == catalog[<<call.service, call.metric>>].thresholds

\* tier i names the call's priority token
TierMatches(i) ==
    LET t == CallTiers[i]
    IN \/ t.kind = "dict" /\ "priority" \in DOMAIN t.val /\ t.val["priority"] = call.priority_token
       \/ t.kind = "list" /\ Len(t.val) >= 1 /\ t.val[1] = call.priority_token

MatchingTiers == {i \in DOMAIN CallTiers : TierMatches(i)}

TierStoresThreshold(i) ==
    LET t == CallTiers[i]
    IN \/ t.kind = "dict" /\ "threshold" \in DOMAIN t.val
       \/ t.kind = "list" /\ Len(t.val) >= 2

TierThreshold(i) ==
    IF CallTiers[i].kind = "dict" THEN CallTiers[i].val["threshold"] ELSE CallTiers[i].val[2]

TierStoresCriticality(i) ==
    CallTiers[i].kind = "dict" /\ "criticality" \in DOMAIN CallTiers[i].val

TierCriticality(i) == CallTiers[i].val["criticality"]

RawIsTrue == call.tag_value \in {S_true, S_True, S_TRUE}

Returned == ret.tag = "item"

MinOf(S) == CHOOSE i \in S : \A j \in S : i <= j
MaxOf(S) == CHOOSE i \in S : \A j \in S : i >= j

\* C3: a literal override at a matching tier leaves the criticality at the priority
\* token, whatever criticality the tier stores (tag value "80" at P1 gives P1).
\* app.py 214-215 set the criticality of a matching mapping tier outside the test
\* for "true", so a tier that stores a criticality overrides the token.
C3_LiteralKeepsPriorityToken ==
    (Returned /\ MatchingTiers # {} /\ ~RawIsTrue)
        => ret.item["criticality"] = call.priority_token

\* C4: a raw value of "true" in any casing, at the one tier that names the priority:
\* the threshold is the tier's stored threshold and the criticality the tier's
\* criticality.
C4_TrueTakesTier ==
    (Returned /\ RawIsTrue /\ Cardinality(MatchingTiers) = 1)
        => LET i == MinOf(MatchingTiers)
           IN /\ TierStoresThreshold(i) => ret.item["threshold"] = TierThreshold(i)
              /\ TierStoresCriticality(i) => ret.item["criticality"] = TierCriticality(i)

C4_Witness ==
    /\ Returned
    /\ call.tag_value = S_TRUE
    /\ call.priority_token = P2
    /\ MatchingTiers = {2}
    /\ TierStoresThreshold(2) /\ TierStoresCriticality(2)
    /\ ret.item["threshold"] = PyInt(S_90)
    /\ ret.item["criticality"] = High

\* C5: a raw value other than "true" at a matching tier stays the threshold, verbatim.
C5_LiteralStaysThreshold ==
    (Returned /\ MatchingTiers # {} /\ ~RawIsTrue)
        => ret.item["threshold"] = PyStr(call.tag_value)

C5_Witness ==
    /\ Returned
    /\ call.tag_value = S_80
    /\ \E i \in MatchingTiers : TierStoresThreshold(i) /\ TierThreshold(i) = PyInt(S_95)
    /\ ret.item["threshold"] = PyStr(S_80)

\* C6 as the spec states it: with several matching tiers both fields come from the
\* first matching tier.
C6_FirstMatchBothFields ==
    (Returned /\ Cardinality(MatchingTiers) > 1)
        => LET i == MinOf(MatchingTiers)
           IN /\ (RawIsTrue /\ TierStoresThreshold(i)) => ret.item["threshold"] = TierThreshold(i)
              /\ TierStoresCriticality(i) => ret.item["criticality"] = TierCriticality(i)

\* C6 amended: with several matching tiers the threshold (raw value "true") is the one
\* stored by the first matching tier that stores a threshold, and the criticality is
\* the one stored by the last matching mapping-shaped tier that stores a criticality.
C6_FirstThresholdLastCriticality ==
    (Returned /\ Cardinality(MatchingTiers) > 1)
        => LET withT == {i \in MatchingTiers : TierStoresThreshold(i)}
               withC == {i \in MatchingTiers : TierStoresCriticality(i)}
           IN /\ ret.item["threshold"] =
                    IF RawIsTrue /\ withT # {} THEN TierThreshold(MinOf(withT))
                    ELSE PyStr(call.tag_value)
              /\ ret.item["criticality"] =
                    IF withC = {} THEN call.priority_token ELSE TierCriticality(MaxOf(withC))

C6_Witness ==
    /\ Returned
    /\ call.tag_value = S_true
    /\ call.priority_token = P1
    /\ CallTiers = <<Dict([priority |-> P1, threshold |-> PyInt(S_95), criticality |-> Critical]),
                     Dict([priority |-> P1, threshold |-> PyInt(S_90), criticality |-> High])>>
    /\ ret.item["threshold"] = PyInt(S_95)
    /\ ret.item["criticality"] = High

\* how the name shows an event field: absent as empty, None as "None"
Shown(d, k) == IF k \notin DOMAIN d THEN <<>> ELSE IF d[k] = NoneVal THEN <<"N","o","n","e">> ELSE d[k]

\* the alarm name of the returned item if its qualifier segment is q (NoneVal: no segment)
NameWithQualifier(q) ==
    join(<<Shown(event, "account_alias"), Shown(event, "account"), Shown(event, "service"),
           Shown(event, "resource_type"), Shown(event, "resource_id"), ret.item["metric"]>>
         \o (IF q = NoneVal THEN <<>> ELSE << <<"'">> \o q \o <<"'">> >>)
         \o << <<"S","e","v","e","r","i","t","y",":"," ">> \o ret.item["criticality"] >>,
         "-")

RetDims == ret.item["dimensions"]

DiskNamed(i) == "Name" \in DOMAIN RetDims[i] /\ RetDims[i]["Name"] \in {S_path, S_LogicalDisk}

\* C8 as the spec states it: the qualifier is there exactly when the candidate has a
\* bound dimension named path or LogicalDisk, which only disk fan-out produces, and is
\* that dimension's value.
C8_QualifierIffBoundDiskDimension ==
    Returned
        => LET bound == {i \in DOMAIN RetDims : DiskNamed(i) /\ RetDims[i]["Value"] # RetDims[i]["Name"]}
           IN /\ bound # {} => call.disk # NoDisk
              /\ IF bound = {} THEN ret.item["alarm_name"] = NameWithQualifier(NoneVal)
                 ELSE \E i \in bound : ret.item["alarm_name"] = NameWithQualifier(RetDims[i]["Value"])

\* C8 amended: the qualifier is there exactly when the dimension list get_table_item
\* built (template dimensions after binding, unbound placeholders included, then the
\* disk's) holds a dimension named path or LogicalDisk and the first such dimension
\* has a non-empty value; it is that first dimension's value.
C8_QualifierIsFirstDiskNamedValue ==
    Returned
        => LET hits == {i \in DOMAIN RetDims : DiskNamed(i)}
           IN ret.item["alarm_name"] =
                 IF hits # {} /\ RetDims[MinOf(hits)]["Value"] # <<>>
                 THEN NameWithQualifier(RetDims[MinOf(hits)]["Value"])
                 ELSE NameWithQualifier(NoneVal)

C8_Witness ==
    /\ Returned
    /\ call.disk = LinuxDisk(S_xb, S_xfs, S_data)
    /\ \E i \in DOMAIN RetDims : RetDims[i] = [Name |-> S_path, Value |-> S_path]
    /\ ret.item["alarm_name"] = NameWithQualifier(S_path)

----------------------------------------------------------------------------
\* One run of lambda_handler (app.py 82-112)

Init ==
    /\ \E inp \in RunInputs :
          /\ event = inp.event
          /\ catalog = inp.catalog
          /\ env = inp.env
    /\ pc = "start"
    /\ os_type = NoneVal
    /\ disks = <<>>
    /\ alarm_config = <<>>
    /\ lookups = <<>>
    /\ sent = 0
    /\ invocation = NoInvocation
    /\ call = NoCall
    /\ ret = NoCall
    /\ NoWorkflow
    /\ NoWait
    /\ table_writes = 0
    /\ writers = <<>>

\* the test of line 96, which raises KeyError on a key the event lacks
wants_disks(ev) ==
    IF "service" \notin DOMAIN ev THEN "raise"
    ELSE IF ev["service"] # S_ec2 THEN "no"
    ELSE IF "resource_type" \notin DOMAIN ev THEN "raise"
    ELSE IF ev["resource_type"] # S_instance THEN "no"
    ELSE IF "cloudwatch" \notin DOMAIN ev THEN "raise"
    ELSE IF ev["cloudwatch"] # TRUE THEN "no"
    ELSE IF "resource_id" \notin DOMAIN ev THEN "raise"
    ELSE "yes"

\* rolelib.assume_role raises when the event lacks region or account (KeyError)
\* or when sts.assume_role does (rolelib.py 19-29)
assume_role_raises(ev, e) ==
    ~ ({"region", "account"} \subseteq DOMAIN ev) \/ e.sts = "raise"

\* rolelib.retrieve_session_credentials raises on an answer without Credentials
\* (rolelib.py 42-45)
retrieve_session_credentials_raises(e) == e.sts = "no_credentials"

\* session = retrieve_session_credentials(event, assume_role(event)) raises
session_raises(ev, e) == assume_role_raises(ev, e) \/ retrieve_session_credentials_raises(e)

\* lines 93-96: disks = [], the role is assumed, the resource is classified
Start ==
    /\ pc = "start"
    /\ pc' = CASE session_raises(event, env) -> "aborted"
               [] wants_disks(event) = "raise" -> "aborted"
               [] wants_disks(event) = "yes" -> "os"
               [] OTHER -> "alarms"
    /\ disks' = <<>>
    /\ UNCHANGED <<workflowVars, waitVars, event, tableVars, os_type, alarm_config, lookups, env, sent, invocation, call, ret>>

\* lines 97-98: os_type = get_os_type(...)
GetOsType ==
    /\ pc = "os"
    /\ os_type' = get_os_type(env)
    /\ pc' = IF truthy(get_os_type(env)) THEN "send" ELSE "alarms"
    /\ UNCHANGED <<workflowVars, waitVars, event, tableVars, disks, alarm_config, lookups, env, sent, invocation, call, ret>>

\* a variant of SendCommand that submits the command again after a failure
SendCommand_retries ==
    /\ pc = "send"
    /\ sent' = sent + 1
    /\ IF env.send = "raise"
       THEN disks' = <<>> /\ pc' = IF sent = 0 THEN "send" ELSE "alarms"
       ELSE disks' = disks /\ pc' = "invoke"
    /\ UNCHANGED <<workflowVars, waitVars, event, tableVars, os_type, alarm_config, lookups, env, invocation, call, ret>>

\* discover_disks up to ssm.send_command (app.py 339-356)
SendCommand ==
    /\ pc = "send"
    /\ sent' = sent + 1
    /\ IF env.send = "raise"
       THEN disks' = <<>> /\ pc' = "alarms"
       ELSE disks' = disks /\ pc' = "invoke"
    /\ UNCHANGED <<workflowVars, waitVars, event, tableVars, os_type, alarm_config, lookups, env, invocation, call, ret>>

\* a variant of GetCommandInvocation in which a failed read is not caught
GetCommandInvocation_propagates ==
    /\ pc = "invoke"
    /\ IF env.invoke = "raise"
       THEN disks' = <<>> /\ invocation' = invocation /\ pc' = "aborted"
       ELSE /\ disks' = parse_output(env.response, os_type)
            /\ invocation' = env.response
            /\ pc' = "alarms"
    /\ UNCHANGED <<workflowVars, waitVars, event, tableVars, os_type, alarm_config, lookups, env, sent, call, ret>>

\* discover_disks from the sleep on: one get_command_invocation, then the parse
\* (app.py 358-389)
GetCommandInvocation ==
    /\ pc = "invoke"
    /\ IF env.invoke = "raise"
       THEN disks' = <<>> /\ invocation' = invocation
       ELSE disks' = parse_output(env.response, os_type) /\ invocation' = env.response
    /\ pc' = "alarms"
    /\ UNCHANGED <<workflowVars, waitVars, event, tableVars, os_type, alarm_config, lookups, env, sent, call, ret>>

\* the get_table_item calls get_alarms makes, in order, each with the signal and
\* the disk it is made for: one per direct signal in tag order (app.py 130-149),
\* then for each disk one per disk-metric signal (app.py 151-164)
RECURSIVE direct_reads(_), disk_metas(_), disk_reads(_, _)
direct_reads(tags) ==
    IF Len(tags) = 0 THEN <<>>
    ELSE LET sig == parse_tag_key(Head(tags).k)
         IN (IF sig.ok /\ ~is_disk_metric(sig.metric)
             THEN <<[service |-> sig.service, metric |-> sig.metric,
                     priority_token |-> sig.priority_token, tag_value |-> Head(tags).v,
                     disk |-> NoDisk]>>
             ELSE <<>>) \o direct_reads(Tail(tags))

disk_metas(tags) ==
    IF Len(tags) = 0 THEN <<>>
    ELSE LET sig == parse_tag_key(Head(tags).k)
         IN (IF sig.ok /\ is_disk_metric(sig.metric)
             THEN <<[service |-> sig.service, metric |-> sig.metric,
                     priority_token |-> sig.priority_token, tag_value |-> Head(tags).v]>>
             ELSE <<>>) \o disk_metas(Tail(tags))

\* a variant of disk_reads that stops after the first disk
disk_reads_first_only(metas, ds) ==
    IF Len(ds) = 0 THEN <<>>
    ELSE [m \in DOMAIN metas |->
            [service |-> metas[m].service, metric |-> metas[m].metric,
             priority_token |-> metas[m].priority_token, tag_value |-> metas[m].tag_value,
             disk |-> Head(ds)]]

disk_reads(metas, ds) ==
    IF Len(ds) = 0 THEN <<>>
    ELSE [m \in DOMAIN metas |->
            [service |-> metas[m].service, metric |-> metas[m].metric,
             priority_token |-> metas[m].priority_token, tag_value |-> metas[m].tag_value,
             disk |-> Head(ds)]]
         \o disk_reads(metas, Tail(ds))

table_reads(ev, ds) ==
    IF ~truthy(get(ev, "identifier", NoneVal)) \/ ~truthy(get(ev, "resource_id", NoneVal))
    THEN <<>>
    ELSE direct_reads(tags_of(ev)) \o disk_reads(disk_metas(tags_of(ev)), ds)

\* line 103, get_alarms up to its first read of the table (app.py 117-143): with
\* no read to make it returns its empty list. call holds the loops' state: the
\* candidates so far and the reads still to make
GetAlarms ==
    /\ pc = "alarms"
    /\ IF table_reads(event, disks) = <<>>
       THEN alarm_config' = <<>> /\ call' = call /\ pc' = "clean"
       ELSE alarm_config' = alarm_config
            /\ call' = [tag |-> "get_alarms", alarms |-> <<>>,
                        reads |-> table_reads(event, disks)]
            /\ pc' = "read"
    /\ UNCHANGED <<workflowVars, waitVars, event, tableVars, os_type, disks, lookups, env, sent,
                   invocation, ret>>

\* one get_table_item call of get_alarms (app.py 143-149, 158-164), a read of the
\* table as it is now, and the code after it up to the next one or to the return
ReadTableItem ==
    /\ pc = "read"
    /\ LET rd == Head(call.reads)
           r == get_table_item(rd.service, rd.metric, rd.priority_token, rd.tag_value,
                               event["identifier"], event["resource_id"], event, rd.disk)
           alarms == IF r.tag = "item" THEN Append(call.alarms, r.item) ELSE call.alarms
       IN /\ lookups' = Append(lookups, <<rd.service, rd.metric>>)
          /\ call' = [call EXCEPT !.alarms = alarms, !.reads = Tail(call.reads)]
          /\ IF r.tag = "raise"
             THEN alarm_config' = alarm_config /\ pc' = "aborted"
             ELSE IF Tail(call.reads) = <<>>
             THEN alarm_config' = alarms /\ pc' = "clean"
             ELSE alarm_config' = alarm_config /\ pc' = "read"
    /\ UNCHANGED <<workflowVars, waitVars, event, tableVars, os_type, disks, env, sent,
                   invocation, ret>>

\* Writers of the table: the seed and the two writing routes of the alarm
\* configuration API. They are lambdas of their own and run at any time, before,
\* between and after the steps of a run, and each of their requests to the
\* table is a step of its own.
MaxWrites == 1

\* batch_writer sends a BatchWriteItem request as soon as it holds this many
\* items, and what is left when the with block ends
FlushAmount == 25

\* the n-th BatchWriteItem request of the seed
SeedBatch(n) ==
    [k \in {SeedOrder[i] : i \in (((n - 1) * FlushAmount + 1)..(n * FlushAmount))
                                    \cap DOMAIN SeedOrder}
        |-> SeedItems[k]]

Without(ws, i) == SubSeq(ws, 1, i - 1) \o SubSeq(ws, i + 1, Len(ws))

\* seed_dynamodb.lambda_handler (seed_dynamodb/app.py 25-625) up to its first
\* BatchWriteItem request, which batch.put_item sends with the FlushAmount-th
\* item; a Delete request is answered and nothing is written
SeedTable ==
    /\ table_writes < MaxWrites
    /\ \E request_type \in {"Create", "Update", "Delete"} :
          IF request_type = "Delete"
          THEN UNCHANGED tableVars
          ELSE /\ catalog' = SeedBatch(1) @@ catalog
               /\ table_writes' = table_writes + 1
               /\ writers' = IF Len(SeedOrder) > FlushAmount
                             THEN Append(writers, [tag |-> "seed", batch |-> 2])
                             ELSE writers
    /\ UNCHANGED <<workflowVars, waitVars, event, pc, os_type, disks, alarm_config, lookups,
                   env, sent, invocation, call, ret>>

\* the next BatchWriteItem request of a seed in flight (seed_dynamodb/app.py
\* 623-625): the items left are sent when the with block ends
SeedFlush ==
    /\ \E i \in DOMAIN writers :
          /\ writers[i].tag = "seed"
          /\ catalog' = SeedBatch(writers[i].batch) @@ catalog
          /\ writers' = IF Len(SeedOrder) > writers[i].batch * FlushAmount
                        THEN [writers EXCEPT ![i].batch = @ + 1]
                        ELSE Without(writers, i)
    /\ UNCHANGED <<workflowVars, waitVars, event, table_writes, pc, os_type, disks, alarm_config,
                   lookups, env, sent, invocation, call, ret>>

\* bodies of POST /alarms: a processor template with one tier
ApiBodies ==
    {[key |-> <<S_EC2, S_cpu>>, item |-> Template(<<Tier(P1, S_90, High)>>, SeedDims)]}

\* api_alarm_config.create_alarm (api_alarm_config/app.py 20-46): item.save()
\* puts the item of the body in place of the one of its key
SaveItem ==
    /\ table_writes < MaxWrites
    /\ \E body \in ApiBodies : catalog' = (body.key :> body.item) @@ catalog
    /\ table_writes' = table_writes + 1
    /\ UNCHANGED <<workflowVars, waitVars, event, writers, pc, os_type, disks, alarm_config,
                   lookups, env, sent, invocation, call, ret>>

\* keys of DELETE /alarms/<service>/<metric_name>
ApiKeys == {<<S_EC2, S_cpu>>}

\* api_alarm_config.delete_alarm up to its read (api_alarm_config/app.py
\* 76-79): AlarmConfigTable.get finds the item, or the answer is 404, or 500
\* when the read fails, and nothing is written
GetItemToDelete ==
    /\ table_writes < MaxWrites
    /\ \E key \in ApiKeys :
          IF key \in DOMAIN catalog /\ catalog[key] # LookupFails
          THEN /\ writers' = Append(writers, [tag |-> "delete", key |-> key])
               /\ table_writes' = table_writes + 1
          ELSE UNCHANGED <<table_writes, writers>>
    /\ UNCHANGED <<workflowVars, waitVars, event, catalog, pc, os_type, disks, alarm_config,
                   lookups, env, sent, invocation, call, ret>>

\* api_alarm_config.delete_alarm from item.delete() on (api_alarm_config/app.py
\* 80-82): the item of the key is deleted, whatever the table holds by now
DeleteItem ==
    /\ \E i \in DOMAIN writers :
          /\ writers[i].tag = "delete"
          /\ catalog' = [k \in DOMAIN catalog \ {writers[i].key} |-> catalog[k]]
          /\ writers' = Without(writers, i)
    /\ UNCHANGED <<workflowVars, waitVars, event, table_writes, pc, os_type, disks, alarm_config,
                   lookups, env, sent, invocation, call, ret>>

\* lines 104-108: the removal loop, then return event
CleanAndReturn ==
    /\ pc = "clean"
    /\ LET r == clean_alarms(alarm_config)
       IN IF r.raised
          THEN alarm_config' = alarm_config /\ pc' = "aborted"
          ELSE alarm_config' = r.alarms /\ pc' = "emitted"
    /\ UNCHANGED <<workflowVars, waitVars, event, tableVars, os_type, disks, lookups, env, sent, invocation, call, ret>>

Next ==
    \/ Start
    \/ GetOsType
    \/ SendCommand
    \/ GetCommandInvocation
    \/ GetAlarms
    \/ ReadTableItem
    \/ CleanAndReturn
    \/ SeedTable
    \/ SeedFlush
    \/ SaveItem
    \/ GetItemToDelete
    \/ DeleteItem

Spec == Init /\ [][Next]_vars

\* the key of the read get_alarms makes next
NextKey == <<Head(call.reads).service, Head(call.reads).metric>>

\* lambda_handler runs to its return or its raise: no step waits on another
\* party, so from every position but the last the handler moves on. Every step
\* of the handler changes pc or, a read of the table, lengthens lookups, and
\* one is possible at every position but the last, so this is weak fairness of
\* the handler's steps, stated on pc and lookups alone. The writers of the
\* table are other parties and owe the run nothing.
Proceeds ==
    \/ /\ pc \in {"start", "os", "send", "invoke", "alarms", "clean"}
       /\ pc' \in {"os", "send", "invoke", "alarms", "read", "clean", "emitted", "aborted"} \ {pc}
       /\ lookups' = lookups
    \/ /\ pc = "read"
       /\ pc' \in {"read", "clean", "aborted"}
       /\ lookups' = Append(lookups, NextKey)

FairSpec == Spec /\ WF_<<pc, lookups>>(Proceeds)

----------------------------------------------------------------------------
\* What the claims about a run speak of

RunTags == tags_of(event)

KeySegments(t) == split(t.k, ":")

\* the key has at least three segments and ends in a priority token
ValidTag(t) ==
    /\ Len(KeySegments(t)) >= 3
    /\ KeySegments(t)[Len(KeySegments(t))] \in {P1, P2, P3}

TagPriority(t) == KeySegments(t)[Len(KeySegments(t))]
TagMetric(t) == KeySegments(t)[Len(KeySegments(t)) - 1]
TagService(t) == KeySegments(t)[Len(KeySegments(t)) - 2]

HasTemplate(t) ==
    /\ <<TagService(t), TagMetric(t)>> \in DOMAIN catalog
    /\ catalog[<<TagService(t), TagMetric(t)>>] # [error |-> TRUE]
IsHint(t) == TagMetric(t) \in {EC2LINUXDISK_TAG, EC2WINDOWSDISK_TAG}
IsDirectSignal(t) == ValidTag(t) /\ ~IsHint(t) /\ HasTemplate(t)
IsHintSignal(t) == ValidTag(t) /\ IsHint(t) /\ HasTemplate(t)

\* identifier and resource id are there, so get_alarms goes through the tags
HasIdentity ==
    /\ "identifier" \in DOMAIN event /\ event["identifier"] \notin {NoneVal, <<>>}
    /\ "resource_id" \in DOMAIN event /\ event["resource_id"] \notin {NoneVal, <<>>}

\* get_alarms has returned and its list is still as it returned it
GotAlarms == pc = "clean"

\* no writer has been invoked since the run began: every read of the run saw
\* the table as it is
TableLeftAlone == table_writes = 0

\* C1: no two candidates of the list get_alarms returns share an alarm name.
C1_NoDuplicateNames ==
    GotAlarms
        => \A i, j \in DOMAIN alarm_config :
              i # j => alarm_config[i]["alarm_name"] # alarm_config[j]["alarm_name"]

\* C2: in the event lambda_handler returns no candidate has a dimension whose Name
\* equals its Value.
C2_NoUnboundDimensionEmitted ==
    pc = "emitted"
        => \A i \in DOMAIN alarm_config :
              \A d \in DOMAIN alarm_config[i]["dimensions"] :
                 alarm_config[i]["dimensions"][d]["Name"] # alarm_config[i]["dimensions"][d]["Value"]

\* C7: a tag key with fewer than three segments or without a priority token at its end
\* causes no catalog lookup and no candidate, and get_alarms returns what it returns
\* for the tag map without such keys.
C7_InvalidKeysIgnored ==
    GotAlarms
        => /\ \A i \in DOMAIN alarm_config :
                 \E n \in DOMAIN RunTags :
                    /\ ValidTag(RunTags[n])
                    /\ alarm_config[i]["service"] = TagService(RunTags[n])
                    /\ alarm_config[i]["metric"] = TagMetric(RunTags[n])
                    /\ alarm_config[i]["priority"] = TagPriority(RunTags[n])
           /\ \A i \in DOMAIN lookups :
                 \E n \in DOMAIN RunTags :
                    ValidTag(RunTags[n])
                    /\ lookups[i] = <<TagService(RunTags[n]), TagMetric(RunTags[n])>>
           /\ TableLeftAlone
                 => LET r == get_alarms(WithTags(event, SelectSeq(RunTags, ValidTag)), disks)
                    IN ~r.raised /\ r.alarms = alarm_config /\ r.lookups = lookups

C7_Witness ==
    /\ GotAlarms
    /\ \E n \in DOMAIN RunTags : RunTags[n].k = K_cpu_P4
    /\ \E n \in DOMAIN RunTags : RunTags[n].k = K_cpu_P1
    /\ Len(alarm_config) = 1
    /\ lookups = <<<<S_EC2, S_cpu>>>>

\* C9: a run whose event lacks region, account or resource id, and has a signal to
\* resolve, ends aborted, not with a candidate list.
C9_MissingContextAborts ==
    (pc = "emitted" /\ \E n \in DOMAIN RunTags : IsDirectSignal(RunTags[n]))
        => /\ {"region", "account", "resource_id"} \subseteq DOMAIN event
           /\ event["resource_id"] # NoneVal

\* the alarm name of candidate c if its qualifier segment is q (NoneVal: no segment)
CandidateName(c, q) ==
    join(<<Shown(event, "account_alias"), Shown(event, "account"), Shown(event, "service"),
           Shown(event, "resource_type"), Shown(event, "resource_id"), c["metric"]>>
         \o (IF q = NoneVal THEN <<>> ELSE << <<"'">> \o q \o <<"'">> >>)
         \o << <<"S","e","v","e","r","i","t","y",":"," ">> \o c["criticality"] >>,
         "-")

\* the signals get_alarms takes from the tags, in tag order: none when it returns
\* before reading them, the identifier or the resource id missing
DirectSignals == IF HasIdentity THEN SelectSeq(RunTags, IsDirectSignal) ELSE <<>>
HintSignals == IF HasIdentity THEN SelectSeq(RunTags, IsHintSignal) ELSE <<>>

\* the candidate of hint signal m for disk d, by its place in the list
FanOut(d, m) == alarm_config[Len(DirectSignals) + (d - 1) * Len(HintSignals) + m]

\* the dimensions the disk adds: one per field of the descriptor
DiskDims(d) == [i \in DOMAIN disks[d] |-> [Name |-> disks[d][i][1], Value |-> disks[d][i][2]]]

\* the dimensions of c before those of its disk
OwnDims(c, d) == SubSeq(c["dimensions"], 1, Len(c["dimensions"]) - Len(disks[d]))

\* the qualifier segment of c's name, NoneVal if it has none
Qualifier(c) ==
    IF \E q \in {c["dimensions"][i]["Value"] : i \in DOMAIN c["dimensions"]} :
          c["alarm_name"] = CandidateName(c, q)
    THEN CHOOSE q \in {c["dimensions"][i]["Value"] : i \in DOMAIN c["dimensions"]} :
          c["alarm_name"] = CandidateName(c, q)
    ELSE NoneVal

SameButDisk(a, b) ==
    /\ DOMAIN a = DOMAIN b
    /\ \A f \in DOMAIN a \ {"dimensions", "alarm_name"} : a[f] = b[f]

\* C10: with N disks discovered, each disk-metric hint signal that has a template gets
\* exactly N candidates, one per disk, alike in every field but the disk's dimensions
\* and the qualifier of the name (the table left alone during the run).
C10_OneCandidatePerDisk ==
    (GotAlarms /\ TableLeftAlone)
        => /\ Len(alarm_config) = Len(DirectSignals) + Len(disks) * Len(HintSignals)
           /\ \A d \in DOMAIN disks : \A m \in DOMAIN HintSignals :
                 /\ FanOut(d, m)["service"] = TagService(HintSignals[m])
                 /\ FanOut(d, m)["metric"] = TagMetric(HintSignals[m])
                 /\ FanOut(d, m)["priority"] = TagPriority(HintSignals[m])
                 /\ Len(FanOut(d, m)["dimensions"]) >= Len(disks[d])
                 /\ FanOut(d, m)["dimensions"] = OwnDims(FanOut(d, m), d) \o DiskDims(d)
                 /\ FanOut(d, m)["alarm_name"] = CandidateName(FanOut(d, m), Qualifier(FanOut(d, m)))
                 /\ \A e \in DOMAIN disks :
                       /\ SameButDisk(FanOut(d, m), FanOut(e, m))
                       /\ OwnDims(FanOut(d, m), d) = OwnDims(FanOut(e, m), e)

C10_Witness ==
    /\ GotAlarms
    /\ Len(disks) = 2
    /\ disks[1] # disks[2]
    /\ Len(HintSignals) = 1
    /\ Len(DirectSignals) = 1
    /\ Len(alarm_config) = 3
    /\ alarm_config[2]["alarm_name"] # alarm_config[3]["alarm_name"]

\* C11: a candidate whose metric is one of the two disk metric names is never a direct
\* one: it comes after the direct candidates and its dimensions end with those of one
\* discovered disk; with no disk discovered there is no such candidate (the table
\* left alone during the run).
C11_DiskMetricsOnlyPerDisk ==
    (GotAlarms /\ TableLeftAlone)
        => \A i \in DOMAIN alarm_config :
              alarm_config[i]["metric"] \in {EC2LINUXDISK_TAG, EC2WINDOWSDISK_TAG}
                 => /\ i > Len(DirectSignals)
                    /\ \E d \in DOMAIN disks :
                          /\ Len(alarm_config[i]["dimensions"]) >= Len(disks[d])
                          /\ alarm_config[i]["dimensions"]
                                = OwnDims(alarm_config[i], d) \o DiskDims(d)

C11_Witness ==
    /\ GotAlarms
    /\ disks = <<WindowsDisk(S_C), WindowsDisk(S_D)>>
    /\ Len(alarm_config) = 2
    /\ \A i \in DOMAIN alarm_config : alarm_config[i]["metric"] = EC2WINDOWSDISK_TAG

\* the wait of discover_disks between send_command and its one read of the invocation
SleepSeconds == 5

\* the deadline of the repository's polling wait, wait_for_command of configure_ec2
WaitTimeout == 180

TerminalStatuses == {"Success", "Failed", "Cancelled", "TimedOut"}

\* discover_disks has read the command's invocation and gone on to parse its output
ReadInvocation == invocation # NoInvocation

\* C12: disk discovery stops waiting and parses the output only when the status it
\* last read is terminal or the time it has waited has reached the deadline.
C12_PollsUntilTerminalOrDeadline ==
    ReadInvocation
        => \/ invocation.Status \in TerminalStatuses
           \/ SleepSeconds >= WaitTimeout

\* the command was sent and its invocation never shows a terminal status: the read raises
\* or answers Pending or InProgress, for which SSM gives no output
NeverTerminal ==
    /\ env.send = "ok"
    /\ \/ env.invoke = "raise"
       \/ env.response.Status \in {"Pending", "InProgress"}

\* discover_disks has been called and has returned
DiscoveryOver == sent = 1 /\ pc # "invoke"

\* the candidates are those of the direct signals, one each, in tag order
OnlyDirectCandidates ==
    /\ Len(alarm_config) = Len(DirectSignals)
    /\ \A i \in DOMAIN alarm_config :
          /\ alarm_config[i]["service"] = TagService(DirectSignals[i])
          /\ alarm_config[i]["metric"] = TagMetric(DirectSignals[i])
          /\ alarm_config[i]["priority"] = TagPriority(DirectSignals[i])

\* the run would end aborted with no disks at all
AbortsWithoutDisks ==
    \/ get_alarms(event, <<>>).raised
    \/ clean_alarms(get_alarms(event, <<>>).alarms).raised

\* C13: when the command never shows a terminal status, discover_disks returns no disk
\* and raises nothing: the run goes on and emits the candidates of the direct signals
\* (those the table holds, left alone during the run).
C13_NoTerminalStatusNoDisks ==
    (NeverTerminal /\ DiscoveryOver)
        => /\ disks = <<>>
           /\ (pc = "aborted" /\ TableLeftAlone) => AbortsWithoutDisks
           /\ (pc \in {"clean", "emitted"} /\ TableLeftAlone) => OnlyDirectCandidates

C13_Witness ==
    /\ pc = "emitted"
    /\ sent = 1
    /\ env.invoke = "raise"
    /\ HintSignals # <<>>
    /\ Len(alarm_config) = 1
    /\ alarm_config[1]["metric"] = S_cpu

\* the tags carry a disk-metric hint
HasHintTag == \E n \in DOMAIN RunTags : ValidTag(RunTags[n]) /\ IsHint(RunTags[n])

\* C14: the disk-enumeration command is sent only for an ec2 instance with cloudwatch
\* true that carries a disk-metric hint tag.
C14_CommandOnlyForHintedInstances ==
    sent > 0
        => /\ event["service"] = S_ec2
           /\ event["resource_type"] = S_instance
           /\ event["cloudwatch"] = TRUE
           /\ HasHintTag

\* lambda_handler has called get_os_type and has its answer
OsTypeKnown ==
    ~session_raises(event, env) /\ wants_disks(event) = "yes" /\ pc \notin {"start", "os"}

\* C15: a platform of exactly "windows" gives Windows, any other or none gives Linux;
\* when the lookup fails no command is sent and the run goes on with the candidates of
\* the direct signals (those the table holds, left alone during the run).
C15_OsFamilyAndFailedLookup ==
    OsTypeKnown
        => /\ env.describe = "ok"
                => os_type = IF "Platform" \in DOMAIN env.instance
                                /\ env.instance["Platform"] = <<"w","i","n","d","o","w","s">>
                             THEN <<"W","i","n","d","o","w","s">>
                             ELSE <<"L","i","n","u","x">>
           /\ env.describe = "raise"
                => /\ sent = 0
                   /\ disks = <<>>
                   /\ (pc = "aborted" /\ TableLeftAlone) => AbortsWithoutDisks
                   /\ (pc \in {"clean", "emitted"} /\ TableLeftAlone) => OnlyDirectCandidates

C15_Witness ==
    /\ pc = "emitted"
    /\ wants_disks(event) = "yes"
    /\ env.describe = "raise"
    /\ sent = 0
    /\ HintSignals # <<>>
    /\ Len(alarm_config) = 1

\* the lines of the output discover_disks read
OutputLines == splitlines(get(invocation, "StandardOutputContent", <<>>))

\* C16: of the lines of a Linux output exactly those that split into three fields
\* yield a disk descriptor; lines with fewer or more fields yield none.
C16_ExactlyThreeFields ==
    (DiscoveryOver /\ ReadInvocation /\ os_type = <<"L","i","n","u","x">>)
        => Len(disks) = Cardinality({i \in DOMAIN OutputLines :
                                        Len(split_whitespace(OutputLines[i])) = 3})

\* the dimensions of the template the call resolved, as the catalog stores them
CallDims == catalog[<<call.service, call.metric>>].dimensions

\* the returned dimensions that come from the template: all but those of the disk
TemplatePart ==
    SubSeq(RetDims, 1,
           Len(RetDims) - (IF call.metric \in {EC2LINUXDISK_TAG, EC2WINDOWSDISK_TAG}
                           THEN Len(call.disk) ELSE 0))

\* the names of template dimensions that are neither the identifier nor a metadata key
UnmatchedNames ==
    {CallDims[i].val["Name"] :
        i \in {j \in DOMAIN CallDims : /\ CallDims[j].kind = "dict"
                                       /\ "Name" \in DOMAIN CallDims[j].val
                                       /\ CallDims[j].val["Name"] # event["identifier"]
                                       /\ CallDims[j].val["Name"] \notin DOMAIN event["metadata"]}}

\* C17 as the spec states it: no template dimension matching neither rule is among the
\* candidate's dimensions, whether or not the template stores a value for it.
C17_UnmatchedDimensionsDropped ==
    Returned
        => \A n \in UnmatchedNames :
              \A j \in DOMAIN TemplatePart : TemplatePart[j]["Name"] # n

\* C17 amended: of the template dimensions matching neither rule those that store no
\* Value are absent; those that store one are kept as stored, in template order.
C17_UnmatchedKeptIffValueStored ==
    Returned
        => \A n \in UnmatchedNames :
              SelectSeq(TemplatePart, LAMBDA d : d["Name"] = n)
                 = [k \in DOMAIN SelectSeq(CallDims,
                                   LAMBDA t : /\ t.kind = "dict"
                                              /\ "Name" \in DOMAIN t.val /\ t.val["Name"] = n
                                              /\ "Value" \in DOMAIN t.val)
                       |-> SelectSeq(CallDims,
                                   LAMBDA t : /\ t.kind = "dict"
                                              /\ "Name" \in DOMAIN t.val /\ t.val["Name"] = n
                                              /\ "Value" \in DOMAIN t.val)[k].val]

C17_Witness ==
    /\ Returned
    /\ CallDims = <<Placeholder(InstanceId), Dict([Name |-> ImageId]),
                    Dict([Name |-> S_Zone, Value |-> S_a])>>
    /\ event["metadata"] = <<>>
    /\ RetDims = <<[Name |-> InstanceId, Value |-> S_i1], [Name |-> S_Zone, Value |-> S_a]>>

\* C18: a template dimension named as the identifier is bound to the resource id, also
\* when the metadata has an entry of that name; one named only in the metadata is bound
\* to the metadata's value; each such dimension of the template is kept.
C18_IdentifierBeforeMetadata ==
    Returned
        => /\ \A j \in DOMAIN TemplatePart :
                 /\ TemplatePart[j]["Name"] = event["identifier"]
                       => TemplatePart[j]["Value"] = event["resource_id"]
                 /\ (/\ TemplatePart[j]["Name"] # event["identifier"]
                     /\ TemplatePart[j]["Name"] \in DOMAIN event["metadata"])
                       => TemplatePart[j]["Value"] = event["metadata"][TemplatePart[j]["Name"]]
           /\ \A n \in {event["identifier"]} \cup DOMAIN event["metadata"] :
                 Len(SelectSeq(TemplatePart, LAMBDA d : d["Name"] = n))
                    = Len(SelectSeq(CallDims, LAMBDA t : /\ t.kind = "dict"
                                                       /\ "Name" \in DOMAIN t.val
                                                       /\ t.val["Name"] = n))

C18_Witness ==
    /\ Returned
    /\ event["metadata"] = [k \in {InstanceId, InstanceType} |-> S_meta]
    /\ CallDims = <<Placeholder(InstanceId), Placeholder(InstanceType)>>
    /\ RetDims = <<[Name |-> InstanceId, Value |-> S_i1], [Name |-> InstanceType, Value |-> S_meta]>>

\* a signal whose template the catalog lacks or cannot be read
TemplateLess(t) == ValidTag(t) /\ ~HasTemplate(t)

\* what get_alarms gives for the tags without those of template-less signals
WithoutTemplateLess ==
    get_alarms(WithTags(event, SelectSeq(RunTags, LAMBDA t : ~TemplateLess(t))), disks)

\* C19: a signal without a readable template yields no candidate and does not stop the
\* run: the candidates are those of the tag map without that signal's tag, and the run
\* aborts only if it aborts without it (the table left alone during the run, the
\* role assumed).
C19_TemplateLessSignalSkipped ==
    /\ (GotAlarms /\ TableLeftAlone)
          => /\ \A n \in DOMAIN RunTags :
                   TemplateLess(RunTags[n])
                      => \A i \in DOMAIN alarm_config :
                            \/ alarm_config[i]["service"] # TagService(RunTags[n])
                            \/ alarm_config[i]["metric"] # TagMetric(RunTags[n])
             /\ ~WithoutTemplateLess.raised
             /\ WithoutTemplateLess.alarms = alarm_config
    /\ (pc = "aborted" /\ TableLeftAlone /\ ~session_raises(event, env)
           /\ wants_disks(event) # "raise")
          => \/ WithoutTemplateLess.raised
             \/ clean_alarms(WithoutTemplateLess.alarms).raised

C19_Witness ==
    /\ GotAlarms
    /\ <<S_EC2, S_mem>> \in DOMAIN catalog
    /\ catalog[<<S_EC2, S_mem>>] = LookupFails
    /\ \E n \in DOMAIN RunTags : RunTags[n].k = K_mem_P1
    /\ Len(lookups) = 2
    /\ Len(alarm_config) = 1

----------------------------------------------------------------------------
\* the four values the run needs of its event are there
ContextPresent ==
    /\ {"region", "account", "identifier", "resource_id"} \subseteq DOMAIN event
    /\ \A k \in {"region", "account", "identifier", "resource_id"} :
          event[k] \notin {NoneVal, <<>>}

\* C20: with region, account, identifier and resource id present and the role
\* assumed, whatever the tags and the catalog hold, the run never ends aborted
C20_PerSignalFailureNeverAborts ==
    (ContextPresent /\ ~session_raises(event, env)) => pc # "aborted"

----------------------------------------------------------------------------
\* the stages of a run in their order; the two terminal states come last
StageRank(p) ==
    CASE p = "start" -> 0
      [] p = "os" -> 1
      [] p = "send" -> 2
      [] p = "invoke" -> 3
      [] p = "alarms" -> 4
      [] p = "read" -> 5
      [] p = "clean" -> 6
      [] p \in {"emitted", "aborted"} -> 7

Terminal == pc \in {"emitted", "aborted"}

\* a step of the run stays in the stage of the per-signal reads or moves to a
\* later stage
StageOrder ==
    /\ StageRank(pc') >= StageRank(pc)
    /\ StageRank(pc') = StageRank(pc) => pc = "read"

\* C21: no step of a run returns to an earlier stage and only the stage of the
\* per-signal reads takes more than one step, a terminal state is never left,
\* the remote command is submitted at most once, and every run reaches a
\* terminal state. The steps of the run are those that change pc or lengthen
\* lookups; the writers of the table change neither.
C21_OneTerminalStateStagesInOrder ==
    /\ [][StageOrder /\ ~Terminal]_<<pc, lookups>>
    /\ [](sent <= 1)
    /\ <>Terminal

\* a run that went through every stage, read the table more than once and was
\* emitted
C21_Witness ==
    /\ pc = "emitted"
    /\ os_type # NoneVal
    /\ sent = 1
    /\ Len(disks) > 0
    /\ Len(lookups) > 1
    /\ Len(alarm_config) > 0

----------------------------------------------------------------------------
\* <partition>:sns:<region>:<account>:<TopicPrefix><priority>-<region>
S_partition == <<"a","r","n",":","a","w","s">>
S_sns == <<"s","n","s">>
S_TopicPrefix ==
    <<"R","e","b","u","r","a","-","C","e","n","t","r","a","l","i","s","e","d",
      "O","b","s","e","r","v","a","b","i","l","i","t","y",
      "A","u","t","o","m","a","t","i","o","n","T","o","p","i","c">>

TopicOf(region, account, priority) ==
    join(<<S_partition, S_sns, region, account, S_TopicPrefix \o priority \o <<"-">> \o region>>, ":")

\* C22: every candidate carries a list of exactly one topic ARN, the one of the
\* event's region and account and of the candidate's priority token, so two
\* candidates of one event with the same token carry the same list
C22_OneTopicPerPriorityToken ==
    (GotAlarms \/ pc = "emitted")
        => /\ \A i \in DOMAIN alarm_config :
                 /\ Len(alarm_config[i]["action_topic_arn"]) = 1
                 /\ alarm_config[i]["action_topic_arn"][1]
                       = TopicOf(event["region"], event["account"], alarm_config[i]["priority"])
           /\ \A i, j \in DOMAIN alarm_config :
                 alarm_config[i]["priority"] = alarm_config[j]["priority"]
                    => alarm_config[i]["action_topic_arn"] = alarm_config[j]["action_topic_arn"]

\* two candidates of two metrics with one priority token, whose criticality is
\* not that token
C22_Witness ==
    /\ pc = "emitted"
    /\ \E i, j \in DOMAIN alarm_config :
          /\ alarm_config[i]["metric"] # alarm_config[j]["metric"]
          /\ alarm_config[i]["priority"] = alarm_config[j]["priority"]
          /\ alarm_config[i]["criticality"] # alarm_config[i]["priority"]

----------------------------------------------------------------------------
\* The create stage (create_alarm/app.py) and the workflow's executions

Digits == {"0", "1", "2", "3", "4", "5", "6", "7", "8", "9"}

\* the characters int() drops around a literal: those of str.strip() but the
\* separators 1C to 1F
IntWhitespace == Whitespace \ {"", "", "", ""}

RECURSIVE int_lstrip(_)
int_lstrip(s) == IF Len(s) > 0 /\ s[1] \in IntWhitespace THEN int_lstrip(Tail(s)) ELSE s

RECURSIVE int_rstrip(_)
int_rstrip(s) ==
    IF Len(s) > 0 /\ s[Len(s)] \in IntWhitespace THEN int_rstrip(SubSeq(s, 1, Len(s) - 1)) ELSE s

\* the sign of the literal, and what follows it
int_negative(s) == LET t == int_rstrip(int_lstrip(s)) IN Len(t) > 0 /\ t[1] = "-"

int_body(s) ==
    LET t == int_rstrip(int_lstrip(s))
    IN IF Len(t) > 0 /\ t[1] \in {"+", "-"} THEN Tail(t) ELSE t

\* decimal digits, with single underscores between digits
is_decimal(b) ==
    /\ Len(b) > 0
    /\ b[1] \in Digits
    /\ b[Len(b)] \in Digits
    /\ \A i \in DOMAIN b : b[i] \in Digits \cup {"_"}
    /\ \A i \in 1..(Len(b) - 1) : ~(b[i] = "_" /\ b[i + 1] = "_")

DigitValue(c) == CHOOSE n \in 0..9 : <<"0", "1", "2", "3", "4", "5", "6", "7", "8", "9">>[n + 1] = c

RECURSIVE decimal_value(_, _)
decimal_value(b, acc) ==
    IF Len(b) = 0 THEN acc
    ELSE decimal_value(Tail(b), IF Head(b) = "_" THEN acc ELSE 10 * acc + DigitValue(Head(b)))

\* int(x) raises ValueError on a str that is no decimal literal
int_raises(x) == x.t = "str" /\ ~is_decimal(int_body(x.v))

\* int(x) of an int, or of a str that is a decimal literal: the number
int(x) ==
    LET n == decimal_value(int_body(x.v), 0)
    IN IF int_negative(x.v) THEN 0 - n ELSE n

\* int(n) of a number attribute of the table item, an int in every item drawn
int_of_number(n) == n

\* the arguments of cloudwatch.put_metric_alarm (create_alarm/app.py 57-73)
MetricAlarm(alarm) ==
    [AlarmName |-> alarm["alarm_name"],
     ComparisonOperator |-> alarm["comparison_operator"],
     EvaluationPeriods |-> int_of_number(alarm["evaluation_periods"]),
     DatapointsToAlarm |-> int_of_number(alarm["datapoints_to_alarm"]),
     MetricName |-> alarm["metric"],
     Namespace |-> alarm["namespace"],
     Period |-> int_of_number(alarm["period"]),
     Statistic |-> alarm["statistic"],
     Threshold |-> int(alarm["threshold"]),
     ActionsEnabled |-> alarm["actions_enabled"],
     OKActions |-> alarm["action_topic_arn"],
     AlarmActions |-> alarm["action_topic_arn"],
     AlarmDescription |-> alarm["alarm_description"],
     TreatMissingData |-> alarm["treat_missing_data"],
     Dimensions |-> alarm["dimensions"]]

\* PutMetricAlarm creates the alarm or updates the one of that name
put_metric_alarm(cw, a) ==
    IF \E i \in DOMAIN cw : cw[i].AlarmName = a.AlarmName
    THEN [i \in DOMAIN cw |-> IF cw[i].AlarmName = a.AlarmName THEN a ELSE cw[i]]
    ELSE Append(cw, a)

\* create_alarm raises before its request is sent: the event has no region
\* (app.py 56, 164) or int() refuses the threshold (app.py 66); both are
\* raised again (76-78)
create_alarm_raises(ev, alarm) == "region" \notin DOMAIN ev \/ int_raises(alarm["threshold"])

\* what a request to CloudWatch or Step Functions may answer
Answers == {"ok", "raise"}

\* what STS, EC2 and SSM may answer a lambda of the workflow, at each request
WorkflowEnvs == {QuietEnv, DiskEnv, [QuietEnv EXCEPT !.sts = "raise"]}

\* the id EventBridge gave the n-th event delivered (inbound/app.py 166 names
\* the execution after it)
DeliveryId(n) == <<"e", "v", "-">> \o <<(<<"0", "1", "2", "3", "4", "5", "6", "7", "8", "9">>)[n + 1]>>

\* one execution of the state machine: what Step Functions holds of it (status,
\* input), the lambda it runs (stage), that lambda's position and locals, how
\* its lambda ended (error: "none", "raised" by the code on its input, or
\* "refused" by a service), the executions that had ended when it began
\* (after) and what CloudWatch held when its last lambda ended (left)
Execution(input, after) ==
    [status |-> "RUNNING", stage |-> "build", pc |-> "start", input |-> input,
     os_type |-> NoneVal, disks |-> <<>>, alarms |-> <<>>, reads |-> <<>>,
     alarm_config |-> <<>>, next |-> 1, error |-> "none", after |-> after, left |-> <<>>]

\* no lambda of execution e runs, and none will: its lambda returned or raised
\* at the end of the workflow, or it was stopped between its two lambdas
Ended(e) ==
    \/ executions[e].pc \in {"returned", "raised"}
    \/ executions[e].pc = "built" /\ executions[e].status # "RUNNING"

\* the lambda of execution x raises: Step Functions fails the execution,
\* unless it was stopped before
Raises(x, error) ==
    [x EXCEPT !.pc = "raised", !.error = error, !.left = cloudwatch,
              !.status = IF @ = "RUNNING" THEN "FAILED" ELSE @]

\* how a lambda ends that cannot get its session: the event lacks a key
\* (KeyError, rolelib.py 19-29), or STS refuses
session_error(ev) == IF {"region", "account"} \subseteq DOMAIN ev THEN "refused" ELSE "raised"

\* what the steps of the executions leave alone
besideWorkflow ==
    <<waitVars, event, tableVars, pc, os_type, disks, alarm_config, lookups, env, sent,
      invocation, call, ret>>

MaxRuns == 2

\* inbound.trigger_step_function (inbound/app.py 152-176): an execution is
\* started for each event delivered, whatever other executions do. Each
\* delivery is an event of its own id with the content of ev
StartExecution(ev) ==
    /\ Len(executions) < MaxRuns
    /\ executions' = Append(executions,
                            Execution(put(ev, "id", DeliveryId(Len(executions) + 1)),
                                      {e \in DOMAIN executions : Ended(e)}))
    /\ UNCHANGED <<besideWorkflow, cloudwatch>>

\* the build lambda of execution e, lines 93-96: the role is assumed and the
\* resource is classified
BuildStart(e) ==
    /\ executions[e].stage = "build"
    /\ executions[e].pc = "start"
    /\ \E en \in WorkflowEnvs :
          LET x == executions[e]
          IN executions' =
               [executions EXCEPT ![e] =
                  IF session_raises(x.input, en) THEN Raises(x, session_error(x.input))
                  ELSE IF wants_disks(x.input) = "raise" THEN Raises(x, "raised")
                  ELSE [x EXCEPT !.pc = IF wants_disks(x.input) = "yes" THEN "os" ELSE "alarms"]]
    /\ UNCHANGED <<besideWorkflow, cloudwatch>>

\* lines 97-98: os_type = get_os_type(...)
BuildGetOsType(e) ==
    /\ executions[e].stage = "build"
    /\ executions[e].pc = "os"
    /\ \E en \in WorkflowEnvs :
          executions' = [executions EXCEPT ![e].os_type = get_os_type(en),
                                           ![e].pc = IF truthy(get_os_type(en)) THEN "send"
                                                     ELSE "alarms"]
    /\ UNCHANGED <<besideWorkflow, cloudwatch>>

\* discover_disks up to ssm.send_command (app.py 339-356)
BuildSendCommand(e) ==
    /\ executions[e].stage = "build"
    /\ executions[e].pc = "send"
    /\ \E en \in WorkflowEnvs :
          executions' = [executions EXCEPT ![e].pc = IF en.send = "raise" THEN "alarms"
                                                     ELSE "invoke"]
    /\ UNCHANGED <<besideWorkflow, cloudwatch>>

\* discover_disks from the sleep on (app.py 358-389)
BuildGetCommandInvocation(e) ==
    /\ executions[e].stage = "build"
    /\ executions[e].pc = "invoke"
    /\ \E en \in WorkflowEnvs :
          executions' = [executions EXCEPT ![e].disks = IF en.invoke = "raise" THEN <<>>
                                                        ELSE parse_output(en.response, executions[e].os_type),
                                           ![e].pc = "alarms"]
    /\ UNCHANGED <<besideWorkflow, cloudwatch>>

\* line 103, get_alarms up to its first read of the table (app.py 117-143)
BuildGetAlarms(e) ==
    /\ executions[e].stage = "build"
    /\ executions[e].pc = "alarms"
    /\ LET x == executions[e]
           reads == table_reads(x.input, x.disks)
       IN executions' =
            [executions EXCEPT ![e] =
               IF reads = <<>> THEN [x EXCEPT !.alarm_config = <<>>, !.pc = "clean"]
               ELSE [x EXCEPT !.alarms = <<>>, !.reads = reads, !.pc = "read"]]
    /\ UNCHANGED <<besideWorkflow, cloudwatch>>

\* one get_table_item call of get_alarms (app.py 143-149, 158-164), a read of
\* the table as it is now, and the code after it up to the next one
BuildReadTableItem(e) ==
    /\ executions[e].stage = "build"
    /\ executions[e].pc = "read"
    /\ LET x == executions[e]
           rd == Head(x.reads)
           r == get_table_item(rd.service, rd.metric, rd.priority_token, rd.tag_value,
                               x.input["identifier"], x.input["resource_id"], x.input, rd.disk)
           alarms == IF r.tag = "item" THEN Append(x.alarms, r.item) ELSE x.alarms
       IN executions' =
            [executions EXCEPT ![e] =
               IF r.tag = "raise" THEN Raises(x, "raised")
               ELSE IF Tail(x.reads) = <<>>
               THEN [x EXCEPT !.alarms = alarms, !.reads = <<>>, !.alarm_config = alarms,
                              !.pc = "clean"]
               ELSE [x EXCEPT !.alarms = alarms, !.reads = Tail(x.reads)]]
    /\ UNCHANGED <<besideWorkflow, cloudwatch>>

\* lines 104-108: the removal loop, then the build lambda returns the event
BuildCleanAndReturn(e) ==
    /\ executions[e].stage = "build"
    /\ executions[e].pc = "clean"
    /\ LET x == executions[e]
           r == clean_alarms(x.alarm_config)
       IN executions' =
            [executions EXCEPT ![e] =
               IF r.raised THEN Raises(x, "raised")
               ELSE [x EXCEPT !.alarm_config = r.alarms, !.pc = "built"]]
    /\ UNCHANGED <<besideWorkflow, cloudwatch>>

\* Step Functions hands the event of an execution that is still running to the
\* create lambda, which assumes the role (create_alarm/app.py 31)
CreateStart(e) ==
    /\ executions[e].stage = "build"
    /\ executions[e].pc = "built"
    /\ executions[e].status = "RUNNING"
    /\ \E en \in WorkflowEnvs :
          LET x == [executions[e] EXCEPT !.stage = "create"]
          IN executions' =
               [executions EXCEPT ![e] =
                  IF session_raises(x.input, en) THEN Raises(x, session_error(x.input))
                  ELSE [x EXCEPT !.pc = "create"]]
    /\ UNCHANGED <<besideWorkflow, cloudwatch>>

\* one turn of the loop of the create lambda (create_alarm/app.py 32-33):
\* create_alarm raises, or CloudWatch refuses the request, or the alarm is put.
\* The loop reads no status: a lambda that runs is not interrupted when its
\* execution is stopped
CreateAlarm(e) ==
    /\ executions[e].stage = "create"
    /\ executions[e].pc = "create"
    /\ executions[e].next <= Len(executions[e].alarm_config)
    /\ \E answer \in Answers :
          LET x == executions[e]
              alarm == x.alarm_config[x.next]
          IN IF create_alarm_raises(x.input, alarm)
             THEN /\ executions' = [executions EXCEPT ![e] = Raises(x, "raised")]
                  /\ cloudwatch' = cloudwatch
             ELSE IF answer = "raise"
             THEN /\ executions' = [executions EXCEPT ![e] = Raises(x, "refused")]
                  /\ cloudwatch' = cloudwatch
             ELSE /\ executions' = [executions EXCEPT ![e].next = @ + 1]
                  /\ cloudwatch' = put_metric_alarm(cloudwatch, MetricAlarm(alarm))
    /\ UNCHANGED besideWorkflow

\* the create lambda returns the event (create_alarm/app.py 34)
FinishExecution(e) ==
    /\ executions[e].stage = "create"
    /\ executions[e].pc = "create"
    /\ executions[e].next > Len(executions[e].alarm_config)
    /\ executions' = [executions EXCEPT ![e].pc = "returned",
                                        ![e].left = cloudwatch,
                                        ![e].status = IF @ = "RUNNING" THEN "SUCCEEDED" ELSE @]
    /\ UNCHANGED <<besideWorkflow, cloudwatch>>

\* tag values that int() reads as a number, and one it refuses
S_80_spaced == <<" ", "8", "0", "\n">>
S_080 == <<"0", "8", "0">>
S_8_0_signed == <<"+", "8", "_", "0">>
S_8__0 == <<"8", "_", "_", "0">>

\* a table whose processor item has two tiers of one criticality
TwoTierCatalog ==
    Catalog3(Template(<<Tier(P1, S_95, Critical), Tier(P2, S_90, Critical)>>, SeedDims),
             Template(SeedTiers, <<Placeholder(InstanceId), Placeholder(S_path)>>),
             Template(SeedTiers, SeedDims))

\* the cleaned event, its tags and the table of a workflow
WorkflowInputs ==
    {[event |-> WithTags([BaseEvent EXCEPT !.cloudwatch = FALSE], tags), catalog |-> TwoTierCatalog] :
        tags \in {<<Tag(K_cpu_P1, S_80), Tag(K_cpu_P2, S_true)>>,
                  <<Tag(K_cpu_P1, S_80_spaced), Tag(K_cpu_P2, S_080)>>,
                  <<Tag(K_cpu_P1, S_8_0_signed), Tag(K_cpu_P2, S_8__0)>>}}
    \cup {[event |-> WithTags([BaseEvent EXCEPT !.cloudwatch = FALSE], <<Tag(K_cpu_P2, S_true)>>),
           catalog |-> OneTemplate(S_cpu, Template(<<>>, <<>>))],
          [event |-> WithTags([BaseEvent EXCEPT !.cloudwatch = FALSE], <<Tag(K_status_P2, S_true)>>),
           catalog |-> SeedCatalog],
          [event |-> WithTags(BaseEvent, <<Tag(K_ldisk_P1, S_true), Tag(K_cpu_P1, S_true)>>),
           catalog |-> TwoTierCatalog]}

InitWorkflow ==
    /\ \E inp \in WorkflowInputs :
          /\ event = inp.event
          /\ catalog = inp.catalog
    /\ pc = "idle"
    /\ os_type = NoneVal
    /\ disks = <<>>
    /\ alarm_config = <<>>
    /\ lookups = <<>>
    /\ env = QuietEnv
    /\ sent = 0
    /\ invocation = NoInvocation
    /\ call = NoCall
    /\ ret = NoCall
    /\ NoWorkflow
    /\ NoWait
    /\ table_writes = 0
    /\ writers = <<>>

NextWorkflow ==
    \/ StartExecution(event)
    \/ \E e \in DOMAIN executions : BuildStart(e)
    \/ \E e \in DOMAIN executions : BuildGetOsType(e)
    \/ \E e \in DOMAIN executions : BuildSendCommand(e)
    \/ \E e \in DOMAIN executions : BuildGetCommandInvocation(e)
    \/ \E e \in DOMAIN executions : BuildGetAlarms(e)
    \/ \E e \in DOMAIN executions : BuildReadTableItem(e)
    \/ \E e \in DOMAIN executions : BuildCleanAndReturn(e)
    \/ \E e \in DOMAIN executions : CreateStart(e)
    \/ \E e \in DOMAIN executions : CreateAlarm(e)
    \/ \E e \in DOMAIN executions : FinishExecution(e)
    \/ SeedTable
    \/ SeedFlush
    \/ SaveItem
    \/ GetItemToDelete
    \/ DeleteItem

SpecWorkflow == InitWorkflow /\ [][NextWorkflow]_vars

----------------------------------------------------------------------------
\* What the claims about the workflow speak of

\* every execution has ended, none was refused by a service, all discovered
\* the same disks and no writer of the table was invoked
SameRuns ==
    /\ \A e \in DOMAIN executions : Ended(e)
    /\ \A e \in DOMAIN executions : executions[e].error # "refused"
    /\ \A e \in DOMAIN executions : executions[e].disks = executions[1].disks
    /\ TableLeftAlone

\* C23: the build and the create stage run again for the same event, tags,
\* table and discovered disks leave CloudWatch with the alarms, names and
\* definitions, that it held when they had run once. When the first execution
\* had ended before the others began, none was refused by a service and no
\* writer of the table was invoked, CloudWatch holds at the end what it held
\* when the first execution ended; and, overlapping or not, every execution
\* built the candidates of the first and ended as the first did
C23_TwiceIsOnce ==
    SameRuns
        => \A e \in DOMAIN executions :
              /\ executions[e].alarm_config = executions[1].alarm_config
              /\ executions[e].status = executions[1].status
              /\ (e > 1 /\ \A x \in DOMAIN executions : x > 1 => 1 \in executions[x].after)
                    => cloudwatch = executions[1].left

\* two executions, the second begun after the first had ended, have found the
\* same disks and put the same alarms, one of them for a disk
C23_Witness ==
    /\ SameRuns
    /\ Len(executions) >= 2
    /\ 1 \in executions[2].after
    /\ executions[1].status = "SUCCEEDED"
    /\ executions[2].status = "SUCCEEDED"
    /\ Len(executions[1].disks) > 0
    /\ Len(cloudwatch) >= 2
    /\ cloudwatch = executions[1].left

----------------------------------------------------------------------------
\* The cleaner's metadata extraction (cleaner/app.py get_metadata)

\* sub in s
contains(s, sub) ==
    \E i \in 0..(Len(s) - Len(sub)) : SubSeq(s, i + 1, i + Len(sub)) = sub

\* the environment's company_tag, monitor_tag and dimensions_tag
COMPANY_TAG == <<"c","o">>
MONITOR_TAG == <<"m","o","n">>
DIMENSIONS_TAG == <<"d","i","m">>

\* f"{COMPANY_TAG}:{MONITOR_TAG}:{DIMENSIONS_TAG}"
dimensions_needle == join(<<COMPANY_TAG, MONITOR_TAG, DIMENSIONS_TAG>>, ":")

\* the loop of get_metadata from tag i on (app.py 143-148): split_string[3] of
\* a key of fewer than four segments raises IndexError
RECURSIVE get_metadata_from(_, _, _)
get_metadata_from(tags, i, metadata) ==
    IF i > Len(tags) THEN [raised |-> FALSE, metadata |-> metadata]
    ELSE IF ~contains(tags[i].k, dimensions_needle)
         THEN get_metadata_from(tags, i + 1, metadata)
    ELSE LET split_string == split(tags[i].k, ":")
         IN IF Len(split_string) < 4 THEN [raised |-> TRUE, metadata |-> metadata]
            ELSE get_metadata_from(tags, i + 1, put(metadata, split_string[4], tags[i].v))

\* get_metadata: any exception is caught and {} returned (app.py 155-157)
get_metadata(ev) ==
    LET r == get_metadata_from(tags_of(ev), 1, <<>>)
    IN IF r.raised THEN <<>> ELSE r.metadata

MaxMetaTags == 3

K_meta_type == TagKey(<<COMPANY_TAG, MONITOR_TAG, DIMENSIONS_TAG, InstanceType>>)
K_meta_path == TagKey(<<COMPANY_TAG, MONITOR_TAG, DIMENSIONS_TAG, S_path>>)
K_meta_path_more == TagKey(<<COMPANY_TAG, MONITOR_TAG, DIMENSIONS_TAG, S_path, S_a>>)
K_meta_short == TagKey(<<COMPANY_TAG, MONITOR_TAG, DIMENSIONS_TAG>>)
K_meta_glued == TagKey(<<COMPANY_TAG, MONITOR_TAG, DIMENSIONS_TAG \o S_a>>)

MetaTagPairs ==
    {Tag(K_meta_type, S_t2), Tag(K_meta_path, S_var), Tag(K_meta_path_more, S_data),
     Tag(K_meta_short, S_a), Tag(K_meta_glued, S_a), Tag(K_cpu_P1, S_true)}

MetaTagMaps ==
    {tags \in SeqsUpTo(MetaTagPairs, MaxMetaTags) :
        \A i, j \in DOMAIN tags : i # j => tags[i].k # tags[j].k}

InitCleaner ==
    /\ \E tags \in MetaTagMaps :
          /\ event = [detail |-> [tags |-> tags]]
          /\ call = [tag |-> "get_metadata"]
    /\ ret = [tag |-> "pending"]
    /\ catalog = EmptyTable
    /\ pc = "idle"
    /\ os_type = NoneVal
    /\ disks = <<>>
    /\ alarm_config = <<>>
    /\ lookups = <<>>
    /\ env = QuietEnv
    /\ sent = 0
    /\ invocation = NoInvocation
    /\ NoWorkflow
    /\ NoWait
    /\ table_writes = 0
    /\ writers = <<>>

\* event["metadata"] = get_metadata(event) (cleaner/app.py 47)
CallGetMetadata ==
    /\ call.tag = "get_metadata"
    /\ ret.tag = "pending"
    /\ ret' = [tag |-> "metadata", metadata |-> get_metadata(event)]
    /\ UNCHANGED <<workflowVars, waitVars, event, tableVars, pc, os_type, disks, alarm_config,
                   lookups, env, sent, invocation, call>>

NextCleaner == CallGetMetadata

SpecCleaner == InitCleaner /\ [][NextCleaner]_vars

\* a metadata tag: the key starts with the reserved prefix
IsMetadataTag(t) ==
    /\ Len(t.k) >= Len(dimensions_needle)
    /\ SubSeq(t.k, 1, Len(dimensions_needle)) = dimensions_needle

WellFormedMetadataTag(t) == IsMetadataTag(t) /\ Len(split(t.k, ":")) >= 4

\* the last tag that names the dimension of tag n is tag n
LastOfItsName(tags, n) ==
    \A m \in DOMAIN tags :
        (m > n /\ WellFormedMetadataTag(tags[m]))
            => split(tags[m].k, ":")[4] # split(tags[n].k, ":")[4]

\* C24: whatever malformed metadata tags the tag map holds, every well-formed
\* metadata tag is in the metadata map with its value
C24_MalformedMetadataSkipped ==
    ret.tag = "metadata"
        => \A n \in DOMAIN tags_of(event) :
              (WellFormedMetadataTag(tags_of(event)[n]) /\ LastOfItsName(tags_of(event), n))
                 => LET name == split(tags_of(event)[n].k, ":")[4]
                    IN /\ name \in DOMAIN ret.metadata
                       /\ ret.metadata[name] = tags_of(event)[n].v

----------------------------------------------------------------------------
\* configure_ec2: wait_for_command and check_cloudwatch_agent

\* the default of wait_for_command's poll (configure_ec2/app.py 11)
WaitPoll == 5

\* seconds a get_command_invocation call may take
MaxLatency == 1

\* what a get_command_invocation call gives: a response with a status, or a
\* ClientError with a code
ClientError(code) == [Error |-> code]
PollAnswers ==
    {Response(st, <<>>) :
        st \in {"Pending", "InProgress", "Delayed", "Success", "Failed", "Cancelled", "TimedOut"}}
    \cup {ClientError("InvocationDoesNotExist"), ClientError("AccessDeniedException")}

\* statuses on which wait_for_command returns (app.py 28-33)
returns_on(resp) == resp["Status"] \in {"Success", "Failed", "Cancelled", "TimedOut"}

InitAgent ==
    /\ os_type \in {S_Linux, S_Windows, NoneVal}
    /\ pc = "install"
    /\ event = BaseEvent
    /\ catalog = EmptyTable
    /\ disks = <<>>
    /\ alarm_config = <<>>
    /\ lookups = <<>>
    /\ env = QuietEnv
    /\ sent = 0
    /\ invocation = NoInvocation
    /\ call = NoCall
    /\ ret = NoCall
    /\ NoWorkflow
    /\ NoWait
    /\ table_writes = 0
    /\ writers = <<>>

\* lines 100-119: os_type.lower() raises on None; send_command may raise
SendInstall ==
    /\ pc = "install"
    /\ IF os_type = NoneVal
       THEN sent' = sent /\ pc' = "except"
       ELSE /\ sent' = sent + 1
            /\ pc' \in {"wait", "except"}
    /\ UNCHANGED <<workflowVars, waitVars, event, tableVars, os_type, disks, alarm_config,
                   lookups, env, invocation, call, ret>>

\* lines 126-136: the configure command is sent; send_command may raise
SendConfigure ==
    /\ pc = "configure"
    /\ sent' = sent + 1
    /\ pc' \in {"wait", "except"}
    /\ UNCHANGED <<workflowVars, waitVars, event, tableVars, os_type, disks, alarm_config,
                   lookups, env, invocation, call, ret>>

\* line 13: deadline = time.time() + timeout
WaitEnter ==
    /\ pc = "wait"
    /\ now' = 0
    /\ deadline' = 0 + WaitTimeout
    /\ polls' = 0
    /\ pc' = "check"
    /\ UNCHANGED <<workflowVars, event, tableVars, os_type, disks, alarm_config, lookups,
                   env, sent, invocation, call, ret, outputs>>

\* a variant of WaitCheck that never looks at the deadline
WaitCheck_no_deadline ==
    /\ pc = "check"
    /\ pc' = "poll"
    /\ UNCHANGED <<workflowVars, waitVars, event, tableVars, os_type, disks, alarm_config,
                   lookups, env, sent, invocation, call, ret>>

\* lines 14 and 37: while time.time() < deadline, else raise TimeoutError
WaitCheck ==
    /\ pc = "check"
    /\ pc' = IF now < deadline THEN "poll" ELSE "timeout_error"
    /\ UNCHANGED <<workflowVars, waitVars, event, tableVars, os_type, disks, alarm_config,
                   lookups, env, sent, invocation, call, ret>>

\* a variant of WaitPoll_step in which every ClientError propagates
WaitPoll_step_no_retry ==
    /\ pc = "poll"
    /\ \E answer \in PollAnswers, latency \in 0..MaxLatency :
          /\ invocation' = answer
          /\ now' = now + latency
          /\ polls' = polls + 1
          /\ pc' = IF "Error" \in DOMAIN answer THEN "client_error"
                    ELSE IF returns_on(answer) THEN "returned"
                    ELSE "sleep"
    /\ UNCHANGED <<workflowVars, event, tableVars, os_type, disks, alarm_config, lookups,
                   env, sent, call, ret, deadline, outputs>>

\* lines 15-33: one get_command_invocation and what the loop does with it
WaitPoll_step ==
    /\ pc = "poll"
    /\ \E answer \in PollAnswers, latency \in 0..MaxLatency :
          /\ invocation' = answer
          /\ now' = now + latency
          /\ polls' = polls + 1
          /\ pc' = IF "Error" \in DOMAIN answer
                    THEN IF answer["Error"] = "InvocationDoesNotExist" THEN "sleep"
                         ELSE "client_error"
                    ELSE IF returns_on(answer) THEN "returned"
                    ELSE "sleep"
    /\ UNCHANGED <<workflowVars, event, tableVars, os_type, disks, alarm_config, lookups,
                   env, sent, call, ret, deadline, outputs>>

\* lines 23 and 35: time.sleep(poll)
WaitSleep ==
    /\ pc = "sleep"
    /\ now' = now + WaitPoll
    /\ pc' = "check"
    /\ UNCHANGED <<workflowVars, event, tableVars, os_type, disks, alarm_config, lookups,
                   env, sent, invocation, call, ret, deadline, polls, outputs>>

\* lines 121 and 137-139: wait_for_command returned; the output is logged
WaitReturned ==
    /\ pc = "returned"
    /\ outputs' = Append(outputs, invocation)
    /\ IF Len(outputs) = 0
       THEN pc' = "configure" /\ ret' = ret
       ELSE pc' = "done" /\ ret' = [tag |-> "bool", val |-> TRUE]
    /\ UNCHANGED <<workflowVars, event, tableVars, os_type, disks, alarm_config, lookups,
                   env, sent, invocation, call, now, deadline, polls>>

\* lines 141-143: except Exception: return False
CatchException ==
    /\ pc \in {"except", "timeout_error", "client_error"}
    /\ pc' = "done"
    /\ ret' = [tag |-> "bool", val |-> FALSE]
    /\ UNCHANGED <<workflowVars, waitVars, event, tableVars, os_type, disks, alarm_config,
                   lookups, env, sent, invocation, call>>

NextAgent ==
    \/ SendInstall
    \/ SendConfigure
    \/ WaitEnter
    \/ WaitCheck
    \/ WaitPoll_step
    \/ WaitSleep
    \/ WaitReturned
    \/ CatchException

SpecAgent == InitAgent /\ [][NextAgent]_vars

\* time advances and the handler takes its next step
FairSpecAgent == SpecAgent /\ WF_vars(NextAgent)

----------------------------------------------------------------------------
\* What the claims about wait_for_command and the agent speak of

NotRegistered(answer) == "Error" \in DOMAIN answer /\ answer["Error"] = "InvocationDoesNotExist"
OtherClientError(answer) == "Error" \in DOMAIN answer /\ answer["Error"] # "InvocationDoesNotExist"
HasTerminalStatus(answer) == "Status" \in DOMAIN answer /\ answer["Status"] \in TerminalStatuses
HasOtherStatus(answer) == "Status" \in DOMAIN answer /\ answer["Status"] \notin TerminalStatuses

\* what the loop does with the answer of a poll
AfterPoll ==
    pc = "poll"
        => /\ HasTerminalStatus(invocation') => pc' = "returned"
           /\ (HasOtherStatus(invocation') \/ NotRegistered(invocation')) => pc' = "sleep"
           /\ OtherClientError(invocation') => pc' = "client_error"

\* a sleep lasts one poll interval and leads to the deadline test
AfterSleep == pc = "sleep" => (now' = now + WaitPoll /\ pc' = "check" /\ polls' = polls)

\* the deadline test
AfterCheck == pc = "check" => pc' = IF now < deadline THEN "poll" ELSE "timeout_error"

\* an error leaves wait_for_command with no further poll
AfterRaise == pc \in {"client_error", "timeout_error"} => (polls' = polls /\ pc' = "done")

\* C25: wait_for_command returns only a response with a terminal status; on a
\* non-terminal status or an unregistered invocation it sleeps one poll interval
\* and comes back to the deadline test; it raises TimeoutError only with the
\* deadline passed; any other client error propagates with no further poll
C25_WaitReturnsTerminalRetriesTransient ==
    /\ [](pc = "returned" => HasTerminalStatus(invocation))
    /\ [](pc = "timeout_error" => now >= deadline)
    /\ [](pc = "client_error" => OtherClientError(invocation))
    /\ [][AfterPoll /\ AfterSleep /\ AfterCheck /\ AfterRaise]_vars

\* a wait that met an unregistered invocation and a pending one, slept, and
\* returned a terminal response
C25_Witness ==
    /\ pc = "returned"
    /\ polls >= 3
    /\ now >= 2 * WaitPoll
    /\ invocation["Status"] = "Failed"

\* ceil(a / b)
CeilDiv(a, b) == (a + b - 1) \div b

WaitOver == pc \in {"returned", "timeout_error", "client_error"}

\* a poll is a step that counts one more get_command_invocation
StartsPoll == polls' = polls + 1

\* C26: whatever the polls answer, a wait ends, by a return or a raise, after
\* at most ceil(timeout / poll) polls, and no poll starts with the deadline
\* passed
C26_WaitTerminatesWithinDeadline ==
    /\ [](polls <= CeilDiv(WaitTimeout, WaitPoll))
    /\ [][StartsPoll => now < deadline]_vars
    /\ (pc = "wait") ~> WaitOver

\* a wait whose command stayed pending or unregistered to the deadline
C26_Witness ==
    /\ pc = "timeout_error"
    /\ polls = CeilDiv(WaitTimeout, WaitPoll)
    /\ now = WaitTimeout

\* check_cloudwatch_agent has returned val
AgentReturned(val) == pc = "done" /\ ret = [tag |-> "bool", val |-> val]

\* C29: check_cloudwatch_agent returns True only with an install and a
\* configure command that both ended with status Success; the configure command
\* is sent only after the install command was read with a terminal status; an
\* install that ended Failed, Cancelled or TimedOut gives False
C29_TrueOnlyIfBothSucceeded ==
    /\ AgentReturned(TRUE)
          => /\ Len(outputs) = 2
             /\ outputs[1]["Status"] = "Success"
             /\ outputs[2]["Status"] = "Success"
    /\ sent = 2 => (Len(outputs) >= 1 /\ HasTerminalStatus(outputs[1]))
    /\ (pc = "done" /\ Len(outputs) >= 1 /\ outputs[1]["Status"] \in {"Failed", "Cancelled", "TimedOut"})
          => AgentReturned(FALSE)

\* C30: every candidate the build stage hands to the create stage has a
\* threshold that int() accepts, and no execution that no service refused
\* fails in the create stage: each candidate gets its alarm
C30_EveryCandidateCreatable ==
    \A e \in DOMAIN executions :
        executions[e].stage = "create"
            => /\ \A i \in DOMAIN executions[e].alarm_config :
                     ~int_raises(executions[e].alarm_config[i]["threshold"])
               /\ executions[e].error # "refused" => executions[e].status # "FAILED"
               /\ executions[e].status = "SUCCEEDED"
                     => \A i \in DOMAIN executions[e].alarm_config :
                           \E c \in DOMAIN cloudwatch :
                              cloudwatch[c].AlarmName = executions[e].alarm_config[i]["alarm_name"]

----------------------------------------------------------------------------
\* The deleter (deleter/app.py) beside the workflow's executions

S_arn == <<"a","r","n",":","i","n","s","t","a","n","c","e","/">>
S_TagChange == <<"T","a","g"," ","C","h","a","n","g","e"," ","o","n"," ","R","e","s","o","u","r","c","e">>
S_StateChange == <<"S","t","a","t","e"," ","C","h","a","n","g","e">>
S_IsMonitored == <<"I","s","M","o","n","i","t","o","r","e","d">>
S_Yes == <<"Y","e","s">>
S_i12 == <<"i","-","1","2">>
S_i2 == <<"i","-","2">>

\* the cleaned event of a resource: cleaner/app.py 38-47 adds resource_arn
\* beside the keys of the incoming event
ResourceEvent(rid, detail_type, tags) ==
    WithTags([BaseEvent EXCEPT !.resource_id = rid, !.cloudwatch = FALSE], tags)
        @@ [k \in {"resource_arn"} |-> S_arn \o rid]
        @@ [k \in {"resources"} |-> <<S_arn \o rid>>]
        @@ [k \in {"detail-type"} |-> detail_type]

\* jmespath.search("detail.tags.IsMonitored", execution_details)
is_monitored_tag(details) ==
    LET tags == tags_of(details)
        hits == {n \in DOMAIN tags : tags[n].k = S_IsMonitored}
    IN IF hits = {} THEN NoneVal ELSE tags[CHOOSE n \in hits : TRUE].v

\* the execution's input names the resource of ev (deleter/app.py 55, left operand)
ForResource(ev, details) ==
    \E n \in DOMAIN details["resources"] : details["resources"][n] = ev["resource_arn"]

\* the test of list_executions on one execution's input (deleter/app.py 55)
matches_event(ev, details) ==
    /\ ForResource(ev, details)
    /\ contains(details["detail-type"], S_TagChange)

\* whether the deleter stops the execution (deleter/app.py 55-56, 83-87)
stops_execution(ev, details) ==
    matches_event(ev, details) /\ is_monitored_tag(details) = S_Yes

\* f"{account_alias}-{account}-{service}-{resource_type}-{resource_id}" (app.py 111)
alarm_name_prefix(ev) ==
    join(<<format(ev["account_alias"]), format(ev["account"]), format(ev["service"]),
           format(ev["resource_type"]), format(ev["resource_id"])>>, "-")

\* str.startswith
startswith(s, prefix) == Len(s) >= Len(prefix) /\ SubSeq(s, 1, Len(prefix)) = prefix

\* the names describe_alarms(AlarmNamePrefix=...) answers (app.py 110-115)
describe_alarms(cw, ev) ==
    LET hits == SelectSeq(cw, LAMBDA a : startswith(a.AlarmName, alarm_name_prefix(ev)))
    IN [n \in DOMAIN hits |-> hits[n].AlarmName]

\* cloudwatch.delete_alarms(AlarmNames=alarm_names) (app.py 117): what
\* CloudWatch holds afterwards
delete_alarms(cw, alarm_names) ==
    SelectSeq(cw, LAMBDA a : \A n \in DOMAIN alarm_names : alarm_names[n] # a.AlarmName)

\* a table with the processor and the memory item
SmallCatalog ==
    OneTemplate(S_cpu, Template(SeedTiers, SeedDims)) @@ OneTemplate(S_mem, Template(SeedTiers, SeedDims))

\* inputs of the executions that run before and beside the deleter
OverlappingInputs ==
    {ResourceEvent(S_i1, S_TagChange, <<Tag(K_cpu_P1, S_80), Tag(S_IsMonitored, S_Yes)>>),
     ResourceEvent(S_i1, S_TagChange, <<Tag(K_cpu_P1, S_80), Tag(K_cpu_P2, S_80)>>),
     ResourceEvent(S_i1, S_StateChange, <<Tag(K_mem_P1, S_80), Tag(S_IsMonitored, S_Yes)>>),
     ResourceEvent(S_i12, S_TagChange, <<Tag(K_cpu_P2, S_80), Tag(S_IsMonitored, S_Yes)>>),
     ResourceEvent(S_i2, S_TagChange, <<Tag(K_cpu_P1, S_80)>>),
     [ResourceEvent(S_i2, S_TagChange, <<Tag(K_ldisk_P1, S_true)>>) EXCEPT !.cloudwatch = TRUE]}

InitDeleter ==
    /\ event = ResourceEvent(S_i1, S_TagChange, <<>>)
    /\ catalog = SmallCatalog
    /\ disks = <<>>
    /\ pc = "list"
    /\ call = NoCall
    /\ ret = NoCall
    /\ os_type = NoneVal
    /\ alarm_config = <<>>
    /\ lookups = <<>>
    /\ env = QuietEnv
    /\ sent = 0
    /\ invocation = NoInvocation
    /\ NoWorkflow
    /\ NoWait
    /\ table_writes = 0
    /\ writers = <<>>

\* what the steps of the deleter leave alone
besideDeleter ==
    <<waitVars, event, tableVars, os_type, disks, alarm_config, lookups, env, sent, invocation, ret>>

\* the role is assumed (deleter/app.py 30), then
\* sfn.list_executions(statusFilter='RUNNING') (deleter/app.py 46-50)
ListExecutions ==
    /\ pc = "list"
    /\ \E en \in WorkflowEnvs, answer \in Answers :
          IF session_raises(event, en) \/ answer = "raise"
          THEN pc' = "aborted" /\ call' = call
          ELSE /\ pc' = "describe"
               /\ call' = [tag |-> "deleter",
                           executions |-> SelectSeq([e \in DOMAIN executions |-> e],
                                                    LAMBDA e : executions[e].status = "RUNNING"),
                           i |-> 1,
                           alarm_names |-> <<>>]
    /\ UNCHANGED <<besideDeleter, workflowVars>>

\* one turn of the loop of list_executions up to its request to stop
\* (deleter/app.py 52-58, 83-86): the execution is described and its input
\* tested
DescribeExecution ==
    /\ pc = "describe"
    /\ call.i <= Len(call.executions)
    /\ \E answer \in Answers :
          IF answer = "raise"
          THEN pc' = "aborted" /\ call' = call
          ELSE IF stops_execution(event, executions[call.executions[call.i]].input)
          THEN pc' = "stop" /\ call' = call
          ELSE pc' = "describe" /\ call' = [call EXCEPT !.i = @ + 1]
    /\ UNCHANGED <<besideDeleter, workflowVars>>

\* sfn.stop_execution (deleter/app.py 87, 97): an execution that is running is
\* ABORTED and starts no further lambda; the lambda it runs goes on
StopExecution ==
    /\ pc = "stop"
    /\ \E answer \in Answers :
          IF answer = "raise"
          THEN pc' = "aborted" /\ call' = call /\ executions' = executions
          ELSE /\ pc' = "describe"
               /\ call' = [call EXCEPT !.i = @ + 1]
               /\ executions' = [executions EXCEPT ![call.executions[call.i]].status =
                                    IF @ = "RUNNING" THEN "ABORTED" ELSE @]
    /\ UNCHANGED <<besideDeleter, cloudwatch>>

\* delete_alarms up to the answer of describe_alarms (deleter/app.py 32,
\* 108-115)
DescribeAlarms ==
    /\ pc = "describe"
    /\ call.i > Len(call.executions)
    /\ \E answer \in Answers :
          IF answer = "raise"
          THEN pc' = "aborted" /\ call' = call
          ELSE pc' = "delete" /\ call' = [call EXCEPT !.alarm_names = describe_alarms(cloudwatch, event)]
    /\ UNCHANGED <<besideDeleter, workflowVars>>

\* cloudwatch.delete_alarms of the names described, then return event
\* (deleter/app.py 117, 33)
DeleteAlarms ==
    /\ pc = "delete"
    /\ \E answer \in Answers :
          IF answer = "raise"
          THEN pc' = "aborted" /\ cloudwatch' = cloudwatch
          ELSE pc' = "done" /\ cloudwatch' = delete_alarms(cloudwatch, call.alarm_names)
    /\ UNCHANGED <<besideDeleter, call, executions>>

\* the executions begin, run and end before, beside and after the deleter; no
\* writer of the table runs in this specification
NextDeleter ==
    \/ \E ev \in OverlappingInputs : StartExecution(ev)
    \/ ListExecutions
    \/ DescribeExecution
    \/ StopExecution
    \/ DescribeAlarms
    \/ DeleteAlarms
    \/ \E e \in DOMAIN executions : BuildStart(e)
    \/ \E e \in DOMAIN executions : BuildGetOsType(e)
    \/ \E e \in DOMAIN executions : BuildSendCommand(e)
    \/ \E e \in DOMAIN executions : BuildGetCommandInvocation(e)
    \/ \E e \in DOMAIN executions : BuildGetAlarms(e)
    \/ \E e \in DOMAIN executions : BuildReadTableItem(e)
    \/ \E e \in DOMAIN executions : BuildCleanAndReturn(e)
    \/ \E e \in DOMAIN executions : CreateStart(e)
    \/ \E e \in DOMAIN executions : CreateAlarm(e)
    \/ \E e \in DOMAIN executions : FinishExecution(e)

SpecDeleter == InitDeleter /\ [][NextDeleter]_vars

----------------------------------------------------------------------------
\* What the claims about the deleter speak of

\* alarm a was built for the resource of ev: its name starts with the five
\* fields of ev that build_alarm_name joins, and its identifier dimension is
\* bound to the resource id of ev
BuiltFor(a, ev) ==
    /\ startswith(a.AlarmName, name_prefix(ev) \o <<"-">>)
    /\ \E d \in DOMAIN a.Dimensions :
          /\ a.Dimensions[d]["Name"] = ev["identifier"]
          /\ a.Dimensions[d]["Value"] = ev["resource_id"]

Holds(cw, a) == \E c \in DOMAIN cw : cw[c] = a

\* the deleter's delete request and its return
DeleterDeletes == pc = "delete" /\ pc' = "done"

\* C27: the deleter's delete removes every alarm built for the event's
\* resource and no other alarm
C27_DeletesExactlyOwnAlarms ==
    [][DeleterDeletes
        => \A c \in DOMAIN cloudwatch :
              Holds(cloudwatch', cloudwatch[c]) <=> ~BuiltFor(cloudwatch[c], event)]_vars

\* C28: when the deleter has returned and every execution has ended, and the
\* executions of the deleter's resource are tag-change executions of which one
\* was running when the deleter listed them, CloudWatch holds no alarm of
\* that resource
C28_NoAlarmAfterDeleterAndRuns ==
    (/\ pc = "done"
     /\ \A e \in DOMAIN executions : Ended(e)
     /\ \A e \in DOMAIN executions :
           ForResource(event, executions[e].input) => matches_event(event, executions[e].input)
     /\ \E n \in DOMAIN call.executions : matches_event(event, executions[call.executions[n]].input))
        => \A c \in DOMAIN cloudwatch : ~BuiltFor(cloudwatch[c], event)

====
